---------------------------- MODULE Spec2Model ----------------------------
(***************************************************************************)
(* A model of the concept-matching engine of wo2_oralhistory_matching:     *)
(*   batching.py        the two token-budget batchers                      *)
(*   openai_client.py   _safe_chat_call, the rate-limit retry wrapper      *)
(*   chat_router.py     _chat, the dispatch on the model name              *)
(*   response_cleaner.py, matching.py   cleaning and parsing a response,   *)
(*                      _safe_get_relevant_concepts, match_segment_topdown,*)
(*                      deduplicate_matches, llm_validate_segment_matches  *)
(*   matching_pipeline.py   the loop of main over the selected segments    *)
(*                                                                         *)
(* Texts are TLA+ strings.  SANY's lexer admits neither the backquote nor  *)
(* a non-ASCII character inside a string, so the model writes "~" for the  *)
(* backquote (the fence marker is "~~~", three characters as in the code)  *)
(* and "-" for the en dash of a concept label.                             *)
(***************************************************************************)
EXTENDS Integers, Sequences, FiniteSets, TLC

VARIABLES
    \* ---- one call of a batcher (batching.py)
    b_fn,            \* "segments" | "labels": the batcher called
    b_items,         \* the ordered input list (segments or labels)
    b_overhead,      \* dummy_prompt_tokens: encoded length of the empty prompt
    b_max_tokens,    \* the max_tokens argument, a Python int or the str default
    b_pc,            \* "call" | "done"
    b_result,        \* None, [ok |-> batches] or [exc |-> "TypeError"]
    \* ---- the classification oracle (the OpenAI API), as this run meets it
    oracle,          \* [responses, messages, errors]: what it may answer;
                     \* [script]: the texts it answers first, in order, if any;
                     \* [scripted]: the script it started with
    \* ---- one call of _safe_chat_call (openai_client.py)
    c_pc,            \* "idle" | "loop" | "waiting" | "sleeping" | "done"
    c_max_retries,   \* the max_retries argument
    c_attempt,       \* attempt
    c_wait,          \* [ms |-> wait_time] of the sleep in progress (milliseconds), or None
    c_result,        \* None, [ok |-> text] or [exc |-> kind]
    c_log,           \* history: the calls, answers and sleeps of this call, in order
    \* ---- one call of match_segment_topdown (matching.py)
    td_concepts,     \* concepts: the candidate pool
    td_top_concepts, \* top_concepts
    td_segment,      \* segment (its text)
    td_model,        \* model
    td_max_tokens,   \* max_tokens
    td_pc,           \* "idle" | "start" | "batch" | "chat" | "done"
    td_level_concepts, \* the concepts of the level: top_concepts, then new_narrower_concepts
    td_batches,      \* batched_labels / batched_narrower_labels
    td_bi,           \* the position in td_batches of the batch at hand
    td_attempt,      \* attempt of _safe_get_relevant_concepts
    td_relevant,     \* relevant_top_matches / relevant_narrower_matches
    td_current_matches, \* current_matches
    td_seen_uris,    \* seen_uris
    td_matches,      \* matches
    td_result,       \* None, [ok |-> list] or [exc |-> kind]
    td_level,        \* history: 0 at root evaluation, then the narrower level (capped)
    td_asked_before, \* history: uris whose label was sent to the oracle on an earlier level
    td_asked_now,    \* history: uris whose label was sent to the oracle on this level
    td_roots,        \* history: the uris of relevant_top_matches
    td_batch_log,    \* history: the requests and answers of the batch at hand
    \* ---- deduplicate_matches (matching.py), called on a list and on its result
    d_matches,       \* matches: the list given
    d_pc,            \* "idle" | "call" | "once" | "twice"
    d_result,        \* None or the list returned
    d_again,         \* None or the list returned for d_result
    \* ---- one call of llm_validate_segment_matches (matching.py)
    v_matched_concepts, \* matched_concepts: the candidates to validate
    v_model,         \* model
    v_pc,            \* "idle" | "start" | "chat" | "done"
    v_result,        \* None, [ok |-> list] or [exc |-> kind]
    \* ---- one turn of the loop over the selected segments (matching_pipeline.py)
    p_pc,            \* "idle" | "match" | "validate" | "topdown" | "merge" | "done"
    p_embedding_matches, \* embedding_matches
    p_exact_matches, \* exact_matches
    p_enriched,      \* None, [ok |-> matched_concepts of the EnrichedSegment] or [exc |-> kind]
    \* ---- one call of a function that asks no oracle
    f_fn,            \* "clean" | "embeddings" | "exact": the function called
    f_args,          \* the arguments of the call (a record)
    f_pc,            \* "idle" | "start" | "done"
    f_result,        \* None, [ok |-> value] or [exc |-> kind]
    \* ---- one call of _segment_with_llm (segments.py)
    s_captions,             \* the argument captions
    s_model,                \* the argument model
    s_minutes_per_batch,    \* the argument minutes_per_batch
    s_pc,                   \* "idle" | "loop" | "chat" | "done"
    s_next_caption_index,   \* the local next_caption_index (counted from 0)
    s_stuck_counter,        \* the local stuck_counter
    s_all_segments,         \* the local all_segments
    s_result,               \* None, [ok |-> segments] or [exc |-> kind]
    s_log                   \* history: how each turn of the loop went on

batchVars == <<b_fn, b_items, b_overhead, b_max_tokens, b_pc, b_result>>
chatVars == <<c_pc, c_max_retries, c_attempt, c_wait, c_result, c_log>>

tdInputs == <<td_concepts, td_top_concepts, td_segment, td_model, td_max_tokens>>
tdState == <<td_pc, td_level_concepts, td_batches, td_bi, td_attempt, td_relevant,
             td_current_matches, td_seen_uris, td_matches, td_result>>
tdHistory == <<td_level, td_asked_before, td_asked_now, td_roots, td_batch_log>>
tdVars == <<tdInputs, tdState, tdHistory>>

dedupVars == <<d_matches, d_pc, d_result, d_again>>
valVars == <<v_matched_concepts, v_model, v_pc, v_result>>
plVars == <<p_pc, p_embedding_matches, p_exact_matches, p_enriched>>
fnVars == <<f_fn, f_args, f_pc, f_result>>
segInputs == <<s_captions, s_model, s_minutes_per_batch>>
segVars ==
    <<segInputs, s_pc, s_next_caption_index, s_stuck_counter, s_all_segments, s_result, s_log>>
callVars == <<dedupVars, valVars, plVars, fnVars, segVars>>

vars == <<batchVars, oracle, chatVars, tdVars, callVars>>

None == [none |-> TRUE]

\* deduplicate_matches, llm_validate_segment_matches and main are not called
DedupIdle == d_matches = <<>> /\ d_pc = "idle" /\ d_result = None /\ d_again = None
ValIdle == v_matched_concepts = <<>> /\ v_model = "" /\ v_pc = "idle" /\ v_result = None
PlIdle ==
    /\ p_pc = "idle" /\ p_embedding_matches = <<>> /\ p_exact_matches = <<>>
    /\ p_enriched = None
\* no function is called on its own
FnIdle == f_fn = "" /\ f_args = None /\ f_pc = "idle" /\ f_result = None
\* _segment_with_llm is not called
SegIdle ==
    /\ s_captions = <<>> /\ s_model = "" /\ s_minutes_per_batch = 0
    /\ s_pc = "idle" /\ s_next_caption_index = 0 /\ s_stuck_counter = 0
    /\ s_all_segments = <<>> /\ s_result = None /\ s_log = <<>>

-----------------------------------------------------------------------------
(* Bounds of the model.                                                    *)

MaxLen == 3          \* longest input list given to a batcher
MaxTok == 1          \* longest label text (in tokens) given to the label batcher
MaxOverhead == 1     \* largest dummy_prompt_tokens, in units of OverheadStep
MaxBudgetSteps == 4  \* largest max_tokens, in units of BudgetStep
BudgetStep == 6
OverheadStep == 3
MaxRetries == 3      \* largest max_retries given to _safe_chat_call on its own

-----------------------------------------------------------------------------
(* Python values and string primitives.                                    *)

PyInt(n) == [int |-> n]
PyStr(s) == [str |-> s]
IsInt(v) == DOMAIN v = {"int"}

Max(a, b) == IF a >= b THEN a ELSE b
Min(a, b) == IF a <= b THEN a ELSE b

RECURSIVE Rep(_, _)
Rep(c, n) == IF n = 0 THEN "" ELSE c \o Rep(c, n - 1)

RECURSIVE SumSeq(_)
SumSeq(s) == IF s = <<>> THEN 0 ELSE Head(s) + SumSeq(Tail(s))

RECURSIVE Concat(_)
Concat(ss) == IF ss = <<>> THEN <<>> ELSE Head(ss) \o Concat(Tail(ss))

CharAt(s, i) == SubSeq(s, i, i)
IsSpace(ch) == ch \in {" ", "\n", "\t"}

\* str.startswith / str.endswith
StartsWith(s, p) == Len(s) >= Len(p) /\ SubSeq(s, 1, Len(p)) = p
EndsWith(s, p) == Len(s) >= Len(p) /\ SubSeq(s, Len(s) - Len(p) + 1, Len(s)) = p

\* str.strip()
RECURSIVE LStrip(_)
LStrip(s) == IF Len(s) > 0 /\ IsSpace(CharAt(s, 1)) THEN LStrip(SubSeq(s, 2, Len(s))) ELSE s
RECURSIVE RStrip(_)
RStrip(s) == IF Len(s) > 0 /\ IsSpace(CharAt(s, Len(s))) THEN RStrip(SubSeq(s, 1, Len(s) - 1)) ELSE s
Strip(s) == RStrip(LStrip(s))

\* str.replace("\n", " ")
RECURSIVE ReplaceNewlines(_)
ReplaceNewlines(s) ==
    IF Len(s) = 0 THEN ""
    ELSE (IF CharAt(s, 1) = "\n" THEN " " ELSE CharAt(s, 1)) \o ReplaceNewlines(SubSeq(s, 2, Len(s)))

\* len(encoding.encode(text)): tiktoken is an external library; the model's
\* encoding gives one token per character.
EncodedLen(text) == Len(text)

-----------------------------------------------------------------------------
(* batching.py                                                             *)

SegmentMargin == 10
LabelMargin == 5
DefaultMaxTokens == PyStr("800000")

EmptyBatcher == [batches |-> <<>>, current_batch |-> <<>>, current_tokens |-> 0]

\* token_count of one segment (lines 49-50)
SegmentTokenCount(segment) == EncodedLen(Strip(ReplaceNewlines(segment.text))) + SegmentMargin

\* mutant of SegmentStep: the open batch is closed before every segment
SegmentStepEager(st, segment, dummy_prompt_tokens, max_tokens) ==
    LET closed == IF st.current_batch # <<>>
                  THEN [batches |-> Append(st.batches, st.current_batch),
                        current_batch |-> <<>>, current_tokens |-> 0]
                  ELSE st
    IN  [closed EXCEPT !.current_batch = Append(@, segment),
                       !.current_tokens = @ + SegmentTokenCount(segment)]

\* one turn of the loop of _batch_segments_by_tokens (lines 48-58)
SegmentStep(st, segment, dummy_prompt_tokens, max_tokens) ==
    LET token_count == SegmentTokenCount(segment)
        closed == IF st.current_tokens + token_count + dummy_prompt_tokens > max_tokens
                     /\ st.current_batch # <<>>
                  THEN [batches |-> Append(st.batches, st.current_batch),
                        current_batch |-> <<>>, current_tokens |-> 0]
                  ELSE st
    IN  [closed EXCEPT !.current_batch = Append(@, segment),
                       !.current_tokens = @ + token_count]

RECURSIVE SegmentLoop(_, _, _, _)
SegmentLoop(st, segments, dummy_prompt_tokens, max_tokens) ==
    IF segments = <<>> THEN st
    ELSE SegmentLoop(SegmentStep(st, Head(segments), dummy_prompt_tokens, max_tokens),
                     Tail(segments), dummy_prompt_tokens, max_tokens)

\* mutant of CloseLast: the batch still open when the loop ends is forgotten
CloseLastForgotten(st) == st.batches

\* the batches left when the loop is over (lines 60-62, 90-93)
CloseLast(st) ==
    IF st.current_batch # <<>> THEN Append(st.batches, st.current_batch) ELSE st.batches

\* _batch_segments_by_tokens: with a str max_tokens (the default) the comparison
\* of line 52 raises TypeError as soon as the loop body runs.
BatchSegmentsByTokens(segments, dummy_prompt_tokens, max_tokens) ==
    IF ~IsInt(max_tokens)
    THEN IF segments = <<>> THEN [ok |-> <<>>] ELSE [exc |-> "TypeError"]
    ELSE [ok |-> CloseLast(SegmentLoop(EmptyBatcher, segments, dummy_prompt_tokens, max_tokens.int))]

\* label_token_count (line 80)
LabelTokenCount(label) == EncodedLen(label) + LabelMargin

\* one turn of the loop of _batch_concept_labels_by_tokens (lines 79-88)
LabelStep(st, label, available_tokens) ==
    LET label_token_count == LabelTokenCount(label)
        closed == IF st.current_tokens + label_token_count > available_tokens
                     /\ st.current_batch # <<>>
                  THEN [batches |-> Append(st.batches, st.current_batch),
                        current_batch |-> <<>>, current_tokens |-> 0]
                  ELSE st
    IN  [closed EXCEPT !.current_batch = Append(@, label),
                       !.current_tokens = @ + label_token_count]

RECURSIVE LabelLoop(_, _, _)
LabelLoop(st, labels, available_tokens) ==
    IF labels = <<>> THEN st
    ELSE LabelLoop(LabelStep(st, Head(labels), available_tokens), Tail(labels), available_tokens)

\* mutant of BatchConceptLabelsByTokens: the prompt overhead is not taken off
BatchConceptLabelsIgnoringOverhead(labels, dummy_prompt_tokens, max_tokens) ==
    IF ~IsInt(max_tokens) THEN [exc |-> "TypeError"]
    ELSE [ok |-> CloseLast(LabelLoop(EmptyBatcher, labels, Max(0, max_tokens.int)))]

\* _batch_concept_labels_by_tokens: with a str max_tokens the subtraction of
\* line 73 raises TypeError, whatever the labels.
BatchConceptLabelsByTokens(labels, dummy_prompt_tokens, max_tokens) ==
    IF ~IsInt(max_tokens) THEN [exc |-> "TypeError"]
    ELSE LET available_tokens == Max(0, max_tokens.int - dummy_prompt_tokens)
         IN  [ok |-> CloseLast(LabelLoop(EmptyBatcher, labels, available_tokens))]

-----------------------------------------------------------------------------
(* openai_client.py                                                        *)

Digits == "0123456789"
IsDigit(ch) == \E d \in 1..10 : CharAt(Digits, d) = ch
DigitVal(ch) == (CHOOSE d \in 1..10 : CharAt(Digits, d) = ch) - 1

\* the length of the longest run of [\d\.] characters of s that starts at i
RECURSIVE NumRun(_, _)
NumRun(s, i) ==
    IF i <= Len(s) /\ (IsDigit(CharAt(s, i)) \/ CharAt(s, i) = ".")
    THEN 1 + NumRun(s, i + 1) ELSE 0

\* re.search(r"try again in ([\d\.]+)s", error_msg) from position i on:
\* group(1) of the leftmost match, or None.  The run is taken whole: a shorter
\* one is followed by a digit or a dot, never by the "s".
HintPrefix == "try again in "
RECURSIVE SearchWait(_, _)
SearchWait(msg, i) ==
    IF i + Len(HintPrefix) > Len(msg) THEN None
    ELSE LET j == i + Len(HintPrefix)
             n == NumRun(msg, j)
         IN  IF SubSeq(msg, i, j - 1) = HintPrefix /\ n >= 1 /\ CharAt(msg, j + n) = "s"
             THEN [group |-> SubSeq(msg, j, j + n - 1)]
             ELSE SearchWait(msg, i + 1)

RECURSIVE CountDots(_)
CountDots(s) == IF Len(s) = 0 THEN 0
                ELSE (IF CharAt(s, 1) = "." THEN 1 ELSE 0) + CountDots(SubSeq(s, 2, Len(s)))

\* the value of a string of digits
RECURSIVE DigitsVal(_)
DigitsVal(s) == IF Len(s) = 0 THEN 0
                ELSE DigitsVal(SubSeq(s, 1, Len(s) - 1)) * 10 + DigitVal(CharAt(s, Len(s)))

DotAt(s) == CHOOSE i \in 1..Len(s) : CharAt(s, i) = "."

\* float(text) for a text of digits and dots, in milliseconds (the texts of the
\* model have at most three decimals): ValueError unless the text holds a digit
\* and at most one dot.
Float(text) ==
    IF CountDots(text) > 1 \/ Len(text) = CountDots(text) THEN [exc |-> "ValueError"]
    ELSE IF CountDots(text) = 0 THEN [ok |-> DigitsVal(text) * 1000]
    ELSE LET d == DotAt(text)
             frac == SubSeq(text \o "000", d + 1, d + 3)
         IN  [ok |-> DigitsVal(SubSeq(text, 1, d - 1)) * 1000 + DigitsVal(frac)]

DefaultWait == 10
DefaultMaxRetries == 5

\* wait_time after a RateLimitError (lines 34-41), in milliseconds
WaitTime(error_msg) ==
    LET wait_match == SearchWait(error_msg, 1)
    IN  IF wait_match # None THEN Float(wait_match.group) ELSE [ok |-> DefaultWait * 1000]

NoOracle == [responses |-> {}, messages |-> {}, errors |-> {}, script |-> <<>>, scripted |-> <<>>]

ChatIdle ==
    /\ c_pc = "idle" /\ c_max_retries = 0 /\ c_attempt = 0
    /\ c_wait = None /\ c_result = None /\ c_log = <<>>

\* the state in which _safe_chat_call(max_retries) starts (line 29)
ChatEntered(max_retries) ==
    /\ c_pc' = "loop" /\ c_max_retries' = max_retries /\ c_attempt' = 0
    /\ c_wait' = None /\ c_result' = None /\ c_log' = <<>>

\* lines 30-32: while attempt < max_retries, _chat sends the request
ChatRequest ==
    /\ c_pc = "loop" /\ c_attempt < c_max_retries
    /\ c_pc' = "waiting"
    /\ c_log' = Append(c_log, [ev |-> "call"])
    /\ UNCHANGED <<c_max_retries, c_attempt, c_wait, c_result, oracle, batchVars, tdVars, callVars>>

\* line 32 (and _chat, line 20): the API answers, the content is returned
OracleResponds ==
    /\ c_pc = "waiting"
    /\ \E text \in (IF oracle.script # <<>> THEN {Head(oracle.script)} ELSE oracle.responses) :
          /\ c_result' = [ok |-> text]
          /\ c_log' = Append(c_log, [ev |-> "response", text |-> text])
    /\ oracle' = [oracle EXCEPT !.script = IF @ # <<>> THEN Tail(@) ELSE @]
    /\ c_pc' = "done"
    /\ UNCHANGED <<c_max_retries, c_attempt, c_wait, batchVars, tdVars, callVars>>

\* lines 33-43: RateLimitError; the wait is worked out and the sleep starts.
\* float() raises ValueError inside the handler, which nothing catches.
OracleRateLimits ==
    /\ c_pc = "waiting"
    /\ \E error_msg \in oracle.messages :
          LET wait_time == WaitTime(error_msg) IN
          /\ c_pc' = IF "ok" \in DOMAIN wait_time THEN "sleeping" ELSE "done"
          /\ c_wait' = IF "ok" \in DOMAIN wait_time THEN [ms |-> wait_time.ok] ELSE None
          /\ c_result' = IF "ok" \in DOMAIN wait_time THEN None ELSE wait_time
          /\ c_log' = c_log \o <<[ev |-> "rate_limit", msg |-> error_msg]>>
                            \o (IF "ok" \in DOMAIN wait_time
                                THEN <<[ev |-> "sleep", ms |-> wait_time.ok]>> ELSE <<>>)
    /\ UNCHANGED <<c_max_retries, c_attempt, oracle, batchVars, tdVars, callVars>>

\* mutant of OracleFails: every OpenAIError is slept on and retried
OracleFailsRetried ==
    /\ c_pc = "waiting"
    /\ \E kind \in oracle.errors :
          c_log' = c_log \o <<[ev |-> "error", kind |-> kind],
                              [ev |-> "sleep", ms |-> DefaultWait * 1000]>>
    /\ c_pc' = "sleeping"
    /\ c_wait' = [ms |-> DefaultWait * 1000]
    /\ UNCHANGED <<c_max_retries, c_attempt, c_result, oracle, batchVars, tdVars, callVars>>

\* lines 45-47: any other OpenAIError is raised again at once
OracleFails ==
    /\ c_pc = "waiting"
    /\ \E kind \in oracle.errors :
          /\ c_result' = [exc |-> kind]
          /\ c_log' = Append(c_log, [ev |-> "error", kind |-> kind])
    /\ c_pc' = "done"
    /\ UNCHANGED <<c_max_retries, c_attempt, c_wait, oracle, batchVars, tdVars, callVars>>

\* lines 43-44: time.sleep returns, attempt += 1
SleepOver ==
    /\ c_pc = "sleeping"
    /\ c_attempt' = c_attempt + 1
    /\ c_wait' = None
    /\ c_pc' = "loop"
    /\ UNCHANGED <<c_max_retries, c_result, c_log, oracle, batchVars, tdVars, callVars>>

\* line 48: the loop is left, raise Exception("Too many attempts, ...")
ChatExhausted ==
    /\ c_pc = "loop" /\ c_attempt >= c_max_retries
    /\ c_result' = [exc |-> "TooManyAttempts"]
    /\ c_pc' = "done"
    /\ UNCHANGED <<c_max_retries, c_attempt, c_wait, c_log, oracle, batchVars, tdVars, callVars>>

ChatStep ==
    \/ ChatRequest
    \/ OracleResponds
    \/ OracleRateLimits
    \/ OracleFails
    \/ SleepOver
    \/ ChatExhausted

-----------------------------------------------------------------------------
(* response_cleaner.py                                                     *)

\* the first position >= i at which sep occurs in s, or 0 (str.find)
RECURSIVE Find(_, _, _)
Find(s, sep, i) ==
    IF i + Len(sep) - 1 > Len(s) THEN 0
    ELSE IF SubSeq(s, i, i + Len(sep) - 1) = sep THEN i
    ELSE Find(s, sep, i + 1)

\* s.split(sep)[1]: what lies between the first sep and the second one (or the
\* end of s); IndexError when s holds no sep.
SplitSecond(s, sep) ==
    LET a == Find(s, sep, 1) IN
    IF a = 0 THEN [exc |-> "IndexError"]
    ELSE LET from == a + Len(sep)
             b == Find(s, sep, from)
         IN  [ok |-> SubSeq(s, from, IF b = 0 THEN Len(s) ELSE b - 1)]

Fence == "~~~"
FenceJson == "~~~json"
ThinkOpen == "<think>"
ThinkClose == "</think>"

\* _clean_json_output (lines 1-14)
CleanJsonOutput(response_text) ==
    LET stripped == Strip(response_text)
        opened == IF StartsWith(stripped, FenceJson)
                      THEN [ok |-> SubSeq(stripped, Len(FenceJson) + 1, Len(stripped))]
                  ELSE IF StartsWith(stripped, Fence)
                      THEN [ok |-> SubSeq(stripped, Len(Fence) + 1, Len(stripped))]
                  ELSE IF StartsWith(stripped, ThinkOpen)
                      THEN SplitSecond(stripped, ThinkClose)
                  ELSE [ok |-> stripped]
    IN  IF "exc" \in DOMAIN opened THEN opened
        ELSE [ok |-> Strip(IF EndsWith(opened.ok, Fence)
                           THEN SubSeq(opened.ok, 1, Len(opened.ok) - Len(Fence))
                           ELSE opened.ok)]

-----------------------------------------------------------------------------
(* JSON texts.  A parsed value is one of                                   *)
(*   [t |-> "array", items |-> <<values>>]    [t |-> "string", s |-> text] *)
(*   [t |-> "object", m |-> [key |-> value]]  [t |-> "number", milli |-> n]*)
(*   [t |-> "null"]                                                        *)
(* A number is kept in thousandths.  json.loads is the inverse of JsonDump *)
(* on the documents of JsonDocs and fails on every other text.             *)

JArr(items) == [t |-> "array", items |-> items]
JStr(text) == [t |-> "string", s |-> text]
JNum(milli) == [t |-> "number", milli |-> milli]
JObj(m) == [t |-> "object", m |-> m]
JNull == [t |-> "null"]
\* an integer literal (a number without fraction)
JInt(n) == [t |-> "int", n |-> n]

RECURSIVE DigitsText(_)
DigitsText(n) == IF n < 10 THEN CharAt(Digits, n + 1)
                 ELSE DigitsText(n \div 10) \o CharAt(Digits, (n % 10) + 1)

\* the text of a number given in thousandths: 900 is 0.9, 1000 is 1.0
NumberText(milli) ==
    LET frac == milli % 1000
        f3 == CharAt(Digits, (frac \div 100) + 1) \o CharAt(Digits, ((frac \div 10) % 10) + 1)
                 \o CharAt(Digits, (frac % 10) + 1)
        RECURSIVE Trim(_)
        Trim(t) == IF Len(t) > 1 /\ CharAt(t, Len(t)) = "0" THEN Trim(SubSeq(t, 1, Len(t) - 1)) ELSE t
    IN  DigitsText(milli \div 1000) \o "." \o Trim(f3)

Quoted(text) == "\"" \o text \o "\""

RECURSIVE JsonDump(_)
RECURSIVE JsonDumpItems(_)
RECURSIVE JsonDumpMembers(_, _)
JsonDump(v) ==
    CASE v.t = "array" -> "[" \o JsonDumpItems(v.items) \o "]"
      [] v.t = "string" -> Quoted(v.s)
      [] v.t = "number" -> NumberText(v.milli)
      [] v.t = "int" -> (IF v.n < 0 THEN "-" \o DigitsText(0 - v.n) ELSE DigitsText(v.n))
      [] v.t = "object" ->
             "{" \o JsonDumpMembers(v.m, <<"concept", "score", "name", "caption_indices">>) \o "}"
      [] v.t = "null" -> "null"
JsonDumpItems(items) ==
    IF items = <<>> THEN ""
    ELSE JsonDump(Head(items)) \o (IF Len(items) > 1 THEN "," ELSE "") \o JsonDumpItems(Tail(items))
JsonDumpMembers(m, keys) ==
    IF keys = <<>> THEN ""
    ELSE LET rest == JsonDumpMembers(m, Tail(keys)) IN
         IF Head(keys) \in DOMAIN m
         THEN Quoted(Head(keys)) \o ":" \o JsonDump(m[Head(keys)])
                 \o (IF rest # "" THEN "," ELSE "") \o rest
         ELSE rest

-----------------------------------------------------------------------------
(* matching.py: from a response text to the matched concepts.              *)

IsOk(r) == "ok" \in DOMAIN r
IsExc(r) == "exc" \in DOMAIN r

Range(f) == {f[i] : i \in DOMAIN f}

RECURSIVE AllNumChars(_)
AllNumChars(text) ==
    Len(text) = 0 \/ ((IsDigit(CharAt(text, 1)) \/ CharAt(text, 1) = ".")
                      /\ AllNumChars(SubSeq(text, 2, Len(text))))

\* mutant of PyFloat: a string score is kept as it is
PyFloatKeepsText(v) ==
    CASE v.t = "number" -> [float |-> v.milli]
      [] v.t = "string" -> v
      [] OTHER -> [exc |-> "TypeError"]

\* float(score) for a parsed JSON value that is not null: [float |-> thousandths],
\* ValueError for a string that is no number, TypeError for an array or object
PyFloat(v) ==
    CASE v.t = "number" -> [float |-> v.milli]
      [] v.t = "string" ->
            IF Len(v.s) > 0 /\ AllNumChars(v.s) /\ IsOk(Float(v.s))
            THEN [float |-> Float(v.s).ok] ELSE [exc |-> "ValueError"]
      [] OTHER -> [exc |-> "TypeError"]

\* score_val of one object of the array (lines 61-65)
ScoreVal(m) ==
    IF "score" \notin DOMAIN m \/ m.score = JNull THEN None
    ELSE IF IsExc(PyFloat(m.score)) THEN None ELSE PyFloat(m.score)

\* selected[name] = score
Put(selected, name, score) ==
    [n \in DOMAIN selected \cup {name} |-> IF n = name THEN score ELSE selected[n]]

\* _extract_selected_names (lines 52-69): the mapping name -> score, or the
\* AttributeError of item["concept"].strip() on a concept that is no string
RECURSIVE ExtractSelectedNames(_, _)
ExtractSelectedNames(parsed, selected) ==
    IF parsed = <<>> THEN [ok |-> selected]
    ELSE LET item == Head(parsed) IN
         IF item.t = "object" /\ "concept" \in DOMAIN item.m
         THEN IF item.m.concept.t # "string" THEN [exc |-> "AttributeError"]
              ELSE ExtractSelectedNames(Tail(parsed),
                       Put(selected, Strip(item.m.concept.s), ScoreVal(item.m)))
         ELSE IF item.t = "string"
         THEN ExtractSelectedNames(Tail(parsed), Put(selected, Strip(item.s), None))
         ELSE ExtractSelectedNames(Tail(parsed), selected)

NoNames == [n \in {} |-> None]

\* lines 91-101: the concepts whose stripped name is selected, in list order
MatchedIn(concepts, name_with_score) ==
    LET named == SelectSeq(concepts, LAMBDA c : Strip(c.name) \in DOMAIN name_with_score)
    IN  [i \in 1..Len(named) |->
            [concept |-> named[i], source |-> "Top-down matching",
             score |-> name_with_score[Strip(named[i].name)]]]

-----------------------------------------------------------------------------
(* The thesauri and the oracle answers of the model.                       *)

Concept(uri, name, description, narrower) ==
    [uri |-> uri, name |-> name, description |-> description, narrower |-> narrower]

cA(narrower) == Concept("ex:A", "A", "", narrower)
cB(narrower) == Concept("ex:B", "B", "", narrower)
cC(narrower) == Concept("ex:C", "C", "", narrower)
cD(narrower) == Concept("ex:D", "D", "", narrower)
cX(narrower) == Concept("ex:X", "X", "a camp", narrower)

Thesaurus(concepts, top_concepts) == [concepts |-> concepts, top_concepts |-> top_concepts]

\* {A (top, narrower=[B]), B, C (top)}
ScenarioThesaurus ==
    Thesaurus(<<cA(<<"ex:B">>), cB(<<>>), cC(<<>>)>>, <<cA(<<"ex:B">>), cC(<<>>)>>)
\* B lists C and C lists B again, as well as the top concept A
CyclicThesaurus ==
    Thesaurus(<<cA(<<"ex:B">>), cB(<<"ex:C">>), cC(<<"ex:B", "ex:A">>)>>, <<cA(<<"ex:B">>)>>)
\* acyclic; X is narrower of A (level 0) and of B (level 1)
DiamondThesaurus ==
    Thesaurus(<<cA(<<"ex:B", "ex:X">>), cB(<<"ex:X">>), cX(<<>>)>>, <<cA(<<"ex:B", "ex:X">>)>>)
\* a chain of four levels
ChainThesaurus ==
    Thesaurus(<<cA(<<"ex:B">>), cB(<<"ex:C">>), cC(<<"ex:D">>), cD(<<>>)>>, <<cA(<<"ex:B">>)>>)
\* a narrower uri that is not in the pool
DanglingThesaurus ==
    Thesaurus(<<cA(<<"ex:B", "ex:missing">>), cB(<<"ex:gone">>)>>, <<cA(<<"ex:B", "ex:missing">>)>>)
\* the top concept C is narrower of the top concept A; two concepts on level 1
TopNarrowerThesaurus ==
    Thesaurus(<<cA(<<"ex:C", "ex:X">>), cC(<<>>), cX(<<>>)>>, <<cA(<<"ex:C", "ex:X">>), cC(<<>>)>>)
\* no top concept
RootlessThesaurus == Thesaurus(<<cA(<<>>)>>, <<>>)

Thesauri == {ScenarioThesaurus, CyclicThesaurus, DiamondThesaurus, ChainThesaurus,
             DanglingThesaurus, TopNarrowerThesaurus, RootlessThesaurus}

\* the sub-lists of a list, order kept
RECURSIVE SubLists(_)
SubLists(l) ==
    IF l = <<>> THEN {<<>>}
    ELSE LET rest == SubLists(Tail(l)) IN rest \cup {<<Head(l)>> \o r : r \in rest}

Strings(names) == [i \in 1..Len(names) |-> JStr(names[i])]

AllNames == <<"A", "B", "C", "D", "X">>

\* well-formed answers other than a plain array of names
ScoredAnswer == JArr(<<JObj([concept |-> JStr("A"), score |-> JNum(900)])>>)
StringScoredAnswer == JArr(<<JObj([concept |-> JStr(" A "), score |-> JStr("0.9")]), JStr("B")>>)
UnknownNameAnswer == JArr(<<JStr("Z")>>)
UnusableScoreAnswer ==
    JArr(<<JObj([concept |-> JStr("A"), score |-> JStr("high")]),
           JObj([concept |-> JStr("B"), score |-> JNull]), JNum(1000)>>)
\* JSON documents of the wrong shape
ObjectAnswer == JObj([concept |-> JStr("A")])
NullAnswer == JNull
NumbersAnswer == JArr(<<JNum(1000), JNull>>)
NamelessAnswer == JArr(<<JObj([name |-> JStr("A")])>>)
NumberConceptAnswer == JArr(<<JStr("A"), JObj([concept |-> JNum(1000)])>>)

JsonDocs ==
    {JArr(Strings(l)) : l \in SubLists(AllNames)}
    \cup {ScoredAnswer, StringScoredAnswer, UnknownNameAnswer, UnusableScoreAnswer,
          ObjectAnswer, NullAnswer,
          NumbersAnswer, NamelessAnswer, NumberConceptAnswer}

JsonTexts == {<<JsonDump(v), v>> : v \in JsonDocs}

\* json.loads
JsonLoads(text) ==
    IF \E d \in JsonTexts : d[1] = text
    THEN [ok |-> (CHOOSE d \in JsonTexts : d[1] = text)[2]]
    ELSE [exc |-> "JSONDecodeError"]

NamesArray(names) == JsonDump(JArr(Strings(names)))

\* texts that are no JSON document
ProseResponse == "I think A fits."
FencedResponse == " ~~~json\n" \o NamesArray(<<"A">>) \o "\n~~~\n"
ThinkResponse == "<think>A?</think>\n" \o NamesArray(<<"A">>)
OpenThinkResponse == "<think>A? " \o NamesArray(<<"A">>)

\* the answers that are not a JSON array of names or named objects
MalformedResponses ==
    {ProseResponse, OpenThinkResponse, JsonDump(ObjectAnswer), JsonDump(NullAnswer),
     JsonDump(NumbersAnswer), JsonDump(NamelessAnswer), JsonDump(NumberConceptAnswer)}

SpecialResponses ==
    MalformedResponses
    \cup {FencedResponse, ThinkResponse, JsonDump(ScoredAnswer), JsonDump(StringScoredAnswer),
          JsonDump(UnknownNameAnswer), JsonDump(UnusableScoreAnswer)}

\* the names of a thesaurus, in pool order
NamesOf(thesaurus) ==
    LET all == thesaurus.concepts \o thesaurus.top_concepts
    IN  SelectSeq(AllNames, LAMBDA n : \E i \in 1..Len(all) : Strip(all[i].name) = n)

ResponsesFor(thesaurus) ==
    {NamesArray(l) : l \in SubLists(NamesOf(thesaurus))} \cup SpecialResponses

-----------------------------------------------------------------------------
(* matching.py: _get_matched_concepts_from_response, the levels.           *)

\* _get_matched_concepts_from_response, lines 73-89: the mapping name -> score
\* that a response selects (empty when the text is no JSON array), or the
\* exception that leaves the function
SelectedNames(response) ==
    LET clean_response == CleanJsonOutput(response) IN
    IF IsExc(clean_response) THEN clean_response
    ELSE LET parsed == JsonLoads(clean_response.ok) IN
         IF IsExc(parsed) THEN [ok |-> NoNames]
         ELSE IF parsed.ok.t # "array" THEN [ok |-> NoNames]
         ELSE ExtractSelectedNames(parsed.ok.items, NoNames)

\* every response text of the model
Responses == UNION {ResponsesFor(thesaurus) : thesaurus \in Thesauri}

\* SelectedNames as a table over the response texts, computed once
SelectedBy == [response \in Responses |-> SelectedNames(response)]

\* _get_matched_concepts_from_response (lines 71-101): [ok |-> matched], or
\* the exception that leaves the function
GetMatchedConceptsFromResponse(response, concepts) ==
    LET name_with_score == SelectedBy[response] IN
    IF IsExc(name_with_score) THEN name_with_score
    ELSE IF DOMAIN name_with_score.ok = {} THEN [ok |-> <<>>]
    ELSE [ok |-> MatchedIn(concepts, name_with_score.ok)]

LabelSeparator == " - "

\* _generate_concept_labels (lines 19-28)
GenerateConceptLabels(concepts) ==
    [i \in 1..Len(concepts) |->
        IF concepts[i].description # ""
        THEN concepts[i].name \o LabelSeparator \o concepts[i].description
        ELSE concepts[i].name]

\* mutant of FindNarrowerConcepts: every concept of the pool is a candidate
FindAllConcepts(current_concepts, target_concepts) == target_concepts

\* _find_narrower_concepts (lines 41-50)
FindNarrowerConcepts(current_concepts, target_concepts) ==
    LET narrower_concept_uris == Concat([i \in 1..Len(current_concepts) |-> current_concepts[i].narrower])
    IN  SelectSeq(target_concepts, LAMBDA c : c.uri \in Range(narrower_concept_uris))

\* _build_topdown_matching_prompt (prompts.py): the prompt of a batch of labels
BuildTopdownMatchingPrompt(concept_labels, segment_text) ==
    [concept_labels |-> concept_labels, segment_text |-> segment_text]

\* len(encoding.encode(prompt))
PromptTokens(prompt) ==
    EncodedLen(prompt.segment_text)
        + SumSeq([i \in 1..Len(prompt.concept_labels) |-> EncodedLen(prompt.concept_labels[i])])

\* the batches of the labels of one level (lines 187-188, 211-212)
LevelBatches(level_concepts, segment, max_tokens) ==
    BatchConceptLabelsByTokens(GenerateConceptLabels(level_concepts),
                               PromptTokens(BuildTopdownMatchingPrompt(<<>>, segment.text)),
                               PyInt(max_tokens)).ok

Uris(matches) == {matches[i].concept.uri : i \in 1..Len(matches)}
ConceptsOf(matches) == [i \in 1..Len(matches) |-> matches[i].concept]

\* max_retries of _safe_get_relevant_concepts (line 153)
SafeGetMaxRetries == 1

-----------------------------------------------------------------------------
(* matching.py: match_segment_topdown, step by step.                       *)

TdIdle ==
    /\ td_concepts = <<>> /\ td_top_concepts = <<>> /\ td_segment = [text |-> ""]
    /\ td_model = "" /\ td_max_tokens = 0
    /\ td_pc = "idle" /\ td_level_concepts = <<>> /\ td_batches = <<>> /\ td_bi = 1
    /\ td_attempt = 0 /\ td_relevant = <<>> /\ td_current_matches = <<>>
    /\ td_seen_uris = {} /\ td_matches = <<>> /\ td_result = None
    /\ td_level = 0 /\ td_asked_before = {} /\ td_asked_now = {} /\ td_roots = {}
    /\ td_batch_log = <<>>

\* the concepts whose labels make up the batch at hand
BatchConcepts ==
    LET before == SumSeq([k \in 1..(td_bi - 1) |-> Len(td_batches[k])])
    IN  SubSeq(td_level_concepts, before + 1, before + Len(td_batches[td_bi]))

BatchPrompt == BuildTopdownMatchingPrompt(td_batches[td_bi], td_segment.text)

\* lines 184-189: matches = [], the top concepts are labelled and batched
TdRootStart ==
    /\ td_pc = "start"
    /\ td_matches' = <<>>
    /\ td_level_concepts' = td_top_concepts
    /\ td_batches' = LevelBatches(td_top_concepts, td_segment, td_max_tokens)
    /\ td_bi' = 1 /\ td_attempt' = 0 /\ td_relevant' = <<>>
    /\ td_pc' = "batch"
    /\ UNCHANGED <<td_current_matches, td_seen_uris, td_result, tdInputs, tdHistory,
                   oracle, chatVars, batchVars, callVars>>

\* lines 191-193 and 215-217, _safe_get_relevant_concepts lines 159-160, and
\* chat_router._chat: the prompt of the batch is built and given to _chat, which
\* raises ValueError for a model that is no "gpt-" one and calls
\* _safe_chat_call (with its default max_retries) otherwise
TdSendBatch ==
    /\ td_pc = "batch" /\ td_bi <= Len(td_batches)
    /\ td_asked_now' = td_asked_now \cup {c.uri : c \in Range(BatchConcepts)}
    /\ td_batch_log' = (IF td_attempt = 0 THEN <<>> ELSE td_batch_log)
                           \o <<[ev |-> "request", prompt |-> BatchPrompt]>>
    /\ IF StartsWith(td_model, "gpt-")
       THEN /\ ChatEntered(DefaultMaxRetries)
            /\ td_pc' = "chat"
            /\ UNCHANGED td_result
       ELSE /\ td_pc' = "done"
            /\ td_result' = [exc |-> "ValueError"]
            /\ UNCHANGED chatVars
    /\ UNCHANGED <<td_level_concepts, td_batches, td_bi, td_attempt, td_relevant,
                   td_current_matches, td_seen_uris, td_matches, tdInputs,
                   td_level, td_asked_before, td_roots, oracle, batchVars, callVars>>

\* mutant of TdReceive: an exception of the oracle call ends the descent and the
\* matches found so far are returned
TdReceiveSwallows ==
    /\ td_pc = "chat" /\ c_pc = "done"
    /\ IF IsExc(c_result)
       THEN /\ td_pc' = "done" /\ td_result' = [ok |-> td_matches]
            /\ td_batch_log' = Append(td_batch_log, [ev |-> "raised", exc |-> c_result.exc])
            /\ UNCHANGED <<td_attempt, td_relevant, td_bi>>
       ELSE LET got == GetMatchedConceptsFromResponse(c_result.ok, td_level_concepts) IN
            /\ td_batch_log' = Append(td_batch_log, [ev |-> "response", text |-> c_result.ok])
            /\ IF IsExc(got)
               THEN IF got.exc \in {"TypeError", "JSONDecodeError"} /\ td_attempt < SafeGetMaxRetries
                    THEN /\ td_attempt' = td_attempt + 1 /\ td_pc' = "batch"
                         /\ UNCHANGED <<td_relevant, td_bi, td_result>>
                    ELSE /\ td_pc' = "done" /\ td_result' = got
                         /\ UNCHANGED <<td_attempt, td_relevant, td_bi>>
               ELSE /\ td_relevant' = td_relevant \o got.ok
                    /\ td_bi' = td_bi + 1 /\ td_attempt' = 0 /\ td_pc' = "batch"
                    /\ UNCHANGED td_result
    /\ c_pc' = "idle" /\ c_max_retries' = 0 /\ c_attempt' = 0
    /\ c_wait' = None /\ c_result' = None /\ c_log' = <<>>
    /\ UNCHANGED <<td_level_concepts, td_batches, td_current_matches, td_seen_uris,
                   td_matches, tdInputs, td_level, td_asked_before, td_asked_now,
                   td_roots, oracle, batchVars, callVars>>

\* _safe_get_relevant_concepts lines 161-167 and lines 194/218: _chat is over.
\* Its exception leaves match_segment_topdown.  Its text is parsed: a TypeError
\* or JSONDecodeError is retried while attempt < max_retries, any other
\* exception leaves match_segment_topdown, a list extends the relevant matches.
TdReceive ==
    /\ td_pc = "chat" /\ c_pc = "done"
    /\ IF IsExc(c_result)
       THEN /\ td_pc' = "done" /\ td_result' = c_result
            /\ td_batch_log' = Append(td_batch_log, [ev |-> "raised", exc |-> c_result.exc])
            /\ UNCHANGED <<td_attempt, td_relevant, td_bi>>
       ELSE LET got == GetMatchedConceptsFromResponse(c_result.ok, td_level_concepts) IN
            /\ td_batch_log' = Append(td_batch_log, [ev |-> "response", text |-> c_result.ok])
            /\ IF IsExc(got)
               THEN IF got.exc \in {"TypeError", "JSONDecodeError"} /\ td_attempt < SafeGetMaxRetries
                    THEN /\ td_attempt' = td_attempt + 1 /\ td_pc' = "batch"
                         /\ UNCHANGED <<td_relevant, td_bi, td_result>>
                    ELSE /\ td_pc' = "done" /\ td_result' = got
                         /\ UNCHANGED <<td_attempt, td_relevant, td_bi>>
               ELSE /\ td_relevant' = td_relevant \o got.ok
                    /\ td_bi' = td_bi + 1 /\ td_attempt' = 0 /\ td_pc' = "batch"
                    /\ UNCHANGED td_result
    /\ c_pc' = "idle" /\ c_max_retries' = 0 /\ c_attempt' = 0
    /\ c_wait' = None /\ c_result' = None /\ c_log' = <<>>
    /\ UNCHANGED <<td_level_concepts, td_batches, td_current_matches, td_seen_uris,
                   td_matches, tdInputs, td_level, td_asked_before, td_asked_now,
                   td_roots, oracle, batchVars, callVars>>

\* mutant of SeenAfterLevel: the matches of a narrower level are not added
SeenNotUpdated ==
    IF td_level = 0 THEN Uris(td_relevant) ELSE td_seen_uris

\* seen_uris once the level is over: lines 201 and 223
SeenAfterLevel ==
    IF td_level = 0 THEN Uris(td_relevant) ELSE td_seen_uris \cup Uris(td_relevant)

\* mutant of MatchesAfterLevel: the relevant top concepts are results too
MatchesWithRoots == td_matches \o td_relevant

\* matches once the level is over: line 224
MatchesAfterLevel ==
    IF td_level = 0 THEN td_matches ELSE td_matches \o td_relevant

\* mutant of NewNarrowerConcepts: every concept of the pool not yet seen is a
\* candidate of the next level
AllUnseenConcepts ==
    SelectSeq(td_concepts, LAMBDA c : c.uri \notin SeenAfterLevel)

\* new_narrower_concepts of the next turn of the loop: lines 204-206
NewNarrowerConcepts ==
    LET narrower_concepts == FindNarrowerConcepts(ConceptsOf(td_relevant), td_concepts)
    IN  SelectSeq(narrower_concepts, LAMBDA c : c.uri \notin SeenAfterLevel)

\* mutant of TdStop: with no relevant top concept the whole pool is queried
TdStopDescends ==
    /\ td_pc = "batch" /\ td_bi > Len(td_batches)
    /\ td_relevant = <<>>
    /\ td_asked_before' = td_asked_before \cup td_asked_now
    /\ td_asked_now' = {}
    /\ IF td_level = 0 /\ td_concepts # <<>>
       THEN /\ td_level_concepts' = td_concepts
            /\ td_batches' = LevelBatches(td_concepts, td_segment, td_max_tokens)
            /\ td_bi' = 1 /\ td_level' = 1
            /\ UNCHANGED <<td_pc, td_result>>
       ELSE /\ td_pc' = "done"
            /\ td_result' = [ok |-> td_matches]
            /\ UNCHANGED <<td_level_concepts, td_batches, td_bi, td_level>>
    /\ UNCHANGED <<td_attempt, td_relevant, td_current_matches, td_seen_uris, td_matches,
                   tdInputs, td_roots, td_batch_log, oracle, chatVars, batchVars, callVars>>

\* lines 196-197 and 220-221: every batch of the level is answered and nothing
\* is relevant: return [] after root evaluation, break (return matches) later
TdStop ==
    /\ td_pc = "batch" /\ td_bi > Len(td_batches)
    /\ td_relevant = <<>>
    /\ td_pc' = "done"
    /\ td_result' = [ok |-> IF td_level = 0 THEN <<>> ELSE td_matches]
    /\ td_asked_before' = td_asked_before \cup td_asked_now
    /\ td_asked_now' = {}
    /\ UNCHANGED <<td_level_concepts, td_batches, td_bi, td_attempt, td_relevant,
                   td_current_matches, td_seen_uris, td_matches, tdInputs, td_level,
                   td_roots, td_batch_log, oracle, chatVars, batchVars, callVars>>

\* mutant of TdDescend: the next level starts once the first batch of the level
\* is answered
TdDescendEarly ==
    /\ td_pc = "batch" /\ td_bi > 1
    /\ td_relevant # <<>>
    /\ td_seen_uris' = SeenAfterLevel
    /\ td_matches' = MatchesAfterLevel
    /\ td_current_matches' = td_relevant
    /\ td_asked_before' = td_asked_before \cup td_asked_now
    /\ td_asked_now' = {}
    /\ td_roots' = IF td_level = 0 THEN Uris(td_relevant) ELSE td_roots
    /\ IF NewNarrowerConcepts = <<>>
       THEN /\ td_pc' = "done"
            /\ td_result' = [ok |-> MatchesAfterLevel]
            /\ UNCHANGED <<td_level_concepts, td_batches, td_bi, td_attempt, td_relevant, td_level>>
       ELSE /\ td_level_concepts' = NewNarrowerConcepts
            /\ td_batches' = LevelBatches(NewNarrowerConcepts, td_segment, td_max_tokens)
            /\ td_bi' = 1 /\ td_attempt' = 0 /\ td_relevant' = <<>>
            /\ td_level' = Min(td_level + 1, Len(td_concepts) + 2)
            /\ UNCHANGED <<td_pc, td_result>>
    /\ UNCHANGED <<tdInputs, td_batch_log, oracle, chatVars, batchVars, callVars>>

\* lines 200-201 and 223-225, then 203-212: the relevant matches of the level
\* become the frontier; its new narrower concepts are labelled and batched, or
\* there are none and matches is returned (lines 208-209, 226)
TdDescend ==
    /\ td_pc = "batch" /\ td_bi > Len(td_batches)
    /\ td_relevant # <<>>
    /\ td_seen_uris' = SeenAfterLevel
    /\ td_matches' = MatchesAfterLevel
    /\ td_current_matches' = td_relevant
    /\ td_asked_before' = td_asked_before \cup td_asked_now
    /\ td_asked_now' = {}
    /\ td_roots' = IF td_level = 0 THEN Uris(td_relevant) ELSE td_roots
    /\ IF NewNarrowerConcepts = <<>>
       THEN /\ td_pc' = "done"
            /\ td_result' = [ok |-> MatchesAfterLevel]
            /\ UNCHANGED <<td_level_concepts, td_batches, td_bi, td_attempt, td_relevant, td_level>>
       ELSE /\ td_level_concepts' = NewNarrowerConcepts
            /\ td_batches' = LevelBatches(NewNarrowerConcepts, td_segment, td_max_tokens)
            /\ td_bi' = 1 /\ td_attempt' = 0 /\ td_relevant' = <<>>
            /\ td_level' = Min(td_level + 1, Len(td_concepts) + 2)
            /\ UNCHANGED <<td_pc, td_result>>
    /\ UNCHANGED <<tdInputs, td_batch_log, oracle, chatVars, batchVars, callVars>>

TopdownModels == {"gpt-4.1", "llama3"}
SegmentText == "txt"
\* max_tokens: the default, room for two plain labels a batch, no room at all
TopdownBudgets == {800000, EncodedLen(SegmentText) + 2 * (1 + LabelMargin), 0}

\* the oracle of the scenario: ["A"] for the root query, ["B"] for the next one
ScenarioScript == <<NamesArray(<<"A">>), NamesArray(<<"B">>)>>
Scripts(thesaurus) == IF thesaurus = ScenarioThesaurus THEN {<<>>, ScenarioScript} ELSE {<<>>}

\* the oracle answers; it rate-limits and fails as well
TopdownOracles(thesaurus) ==
    {[responses |-> ResponsesFor(thesaurus),
      messages |-> {"Rate limit reached for gpt-4.1."},
      errors |-> {"APIConnectionError"},
      script |-> script, scripted |-> script] : script \in Scripts(thesaurus)}

InitTopdown ==
    /\ b_fn = "labels" /\ b_items = <<>> /\ b_overhead = 0
    /\ b_max_tokens = DefaultMaxTokens /\ b_pc = "done" /\ b_result = None
    /\ ChatIdle
    /\ \E thesaurus \in Thesauri :
          /\ td_concepts = thesaurus.concepts
          /\ td_top_concepts = thesaurus.top_concepts
          /\ oracle \in TopdownOracles(thesaurus)
    /\ td_segment = [text |-> SegmentText]
    /\ td_model \in TopdownModels
    /\ td_max_tokens \in TopdownBudgets
    /\ td_pc = "start" /\ td_level_concepts = <<>> /\ td_batches = <<>> /\ td_bi = 1
    /\ td_attempt = 0 /\ td_relevant = <<>> /\ td_current_matches = <<>>
    /\ td_seen_uris = {} /\ td_matches = <<>> /\ td_result = None
    /\ td_level = 0 /\ td_asked_before = {} /\ td_asked_now = {} /\ td_roots = {}
    /\ td_batch_log = <<>>
    /\ DedupIdle /\ ValIdle /\ PlIdle /\ FnIdle /\ SegIdle

NextTopdown ==
    \/ TdRootStart
    \/ TdSendBatch
    \/ ChatStep
    \/ TdReceive
    \/ TdStop
    \/ TdDescend

SpecTopdown == InitTopdown /\ [][NextTopdown]_vars
Spec == SpecTopdown

\* the call is a sequential program: it takes its next step whenever it has
\* one, and every oracle call is answered
SpecTopdownFair == SpecTopdown /\ WF_vars(NextTopdown)

-----------------------------------------------------------------------------
(* Claims on match_segment_topdown.                                        *)

TdDone == td_pc = "done"
TdReturned == td_pc = "done" /\ IsOk(td_result)
TdRaised == td_pc = "done" /\ IsExc(td_result)
PoolUris == {td_concepts[i].uri : i \in 1..Len(td_concepts)}

\* a natural number that every step of a call makes smaller: the levels still
\* possible (the pool uris not yet seen), then the batches of the level still to
\* ask, the attempts left for the batch, and the steps left of the oracle call
ChatRank ==
    CASE c_pc = "loop" -> 3 * (c_max_retries - c_attempt) + 3
      [] c_pc = "waiting" -> 3 * (c_max_retries - c_attempt) + 2
      [] c_pc = "sleeping" -> 3 * (c_max_retries - c_attempt) + 1
      [] OTHER -> 0
StepRankMax == 3 * DefaultMaxRetries + 5
StepRank == IF td_pc = "chat" THEN 1 + ChatRank ELSE StepRankMax
BatchesLeft == Len(td_batches) - td_bi + 1
BatchesMax == Len(td_concepts) + Len(td_top_concepts) + 1
LevelsLeft ==
    IF td_pc = "start" THEN Cardinality(PoolUris) + 2
    ELSE IF td_level = 0 THEN Cardinality(PoolUris) + 1
    ELSE Cardinality(PoolUris \ td_seen_uris)
Rank ==
    IF td_pc = "done" THEN 0
    ELSE ((LevelsLeft * (BatchesMax + 1) + BatchesLeft) * (SafeGetMaxRetries + 1)
             + (SafeGetMaxRetries - td_attempt)) * (StepRankMax + 1) + StepRank

\* C3: every call of match_segment_topdown ends, cyclic narrower links or not:
\* it reaches its end, and each of its steps lowers the rank, a natural number.
C3_Terminates ==
    /\ <>TdDone
    /\ [](Rank >= 0)
    /\ [][Rank' < Rank]_vars

\* C3 witness: the cycle B -> C -> B of the cyclic pool was walked: B and C are
\* matched, C's narrower concepts B and A are seen, and the call has returned.
C3_Witness ==
    /\ TdReturned /\ td_concepts = CyclicThesaurus.concepts
    /\ td_level = 2 /\ Uris(td_result.ok) = {"ex:B", "ex:C"}

\* the uris that the narrower links lead to from the uris S, in at most k steps
RECURSIVE Below(_, _)
Below(S, k) ==
    IF k = 0 THEN S
    ELSE Below(S \cup {u \in PoolUris :
                          \E i \in 1..Len(td_concepts) :
                              td_concepts[i].uri \in S /\ u \in Range(td_concepts[i].narrower)},
                 k - 1)
NarrowerOf(c) == {u \in PoolUris : u \in Range(c.narrower)}
Acyclic ==
    \A i \in 1..Len(td_concepts) :
        td_concepts[i].uri \notin Below(NarrowerOf(td_concepts[i]), Len(td_concepts))

\* C4: on an acyclic hierarchy no concept is sent to the oracle on more than
\* one level.
C4_AskedOnOneLevel ==
    Acyclic => td_asked_now \cap td_asked_before = {}

\* the scenario: the pool {A (top, narrower=[B]), B, C (top)}, one query a
\* level, answered ["A"] and then ["B"]
ScenarioRun ==
    /\ td_concepts = ScenarioThesaurus.concepts
    /\ td_top_concepts = ScenarioThesaurus.top_concepts
    /\ oracle.scripted = ScenarioScript
    /\ Len(LevelBatches(td_top_concepts, td_segment, td_max_tokens)) = 1

\* C5: the result holds no concept matched at root evaluation, only concepts
\* matched on narrower levels; the scenario returns exactly [B].
C5_RootsNotInResult ==
    /\ Uris(td_matches) \cap td_roots = {}
    /\ TdReturned =>
          /\ Uris(td_result.ok) \cap td_roots = {}
          /\ ScenarioRun =>
                td_result.ok = <<[concept |-> cB(<<>>), source |-> "Top-down matching",
                                  score |-> None]>>

\* C5 witness: the scenario has returned, with A the relevant top concept.
C5_Witness ==
    /\ TdReturned /\ ScenarioRun /\ td_roots = {"ex:A"} /\ td_result.ok # <<>>

LastAnswer == td_batch_log[Len(td_batch_log)]
AnsweredMalformed ==
    /\ td_batch_log # <<>> /\ LastAnswer.ev = "response"
    /\ LastAnswer.text \in MalformedResponses

\* C6: a response that cannot be parsed or has the wrong shape counts as no
\* match for its batch: the call raises nothing and goes on.
C6_MalformedIsNoMatch ==
    AnsweredMalformed => ~TdRaised

Requests == {i \in 1..Len(td_batch_log) : td_batch_log[i].ev = "request"}
BatchOver == td_pc = "done" \/ (td_pc = "batch" /\ td_attempt = 0)

\* C7: a batch whose first response cannot be parsed is asked again once: when
\* the batch is over, two requests with the same prompt were made for it; and
\* no batch is asked more than twice.
C7_RetriedOnce ==
    /\ Cardinality(Requests) <= 2
    /\ (/\ BatchOver /\ Len(td_batch_log) >= 2
        /\ td_batch_log[2].ev = "response" /\ td_batch_log[2].text \in MalformedResponses)
         => /\ Cardinality(Requests) = 2
            /\ \A i, j \in Requests : td_batch_log[i].prompt = td_batch_log[j].prompt

\* root evaluation is over and no top concept is relevant
RootsAllIrrelevant ==
    td_pc = "batch" /\ td_level = 0 /\ td_bi > Len(td_batches) /\ td_relevant = <<>>

\* C16: when root evaluation finds no relevant top concept the call returns []
\* as its next step; no narrower level is ever queried without a relevant root.
C16_NoRootNoDescent ==
    /\ [](td_level >= 1 => td_roots # {})
    /\ []((TdReturned /\ td_roots = {}) => (td_result.ok = <<>> /\ td_level = 0))
    /\ [][RootsAllIrrelevant => (td_pc' = "done" /\ td_result' = [ok |-> <<>>] /\ td_level' = 0)]_vars

\* C16 witness: the top concepts were queried, the answer named no concept of
\* the level, and the call has returned [] from root evaluation.
C16_Witness ==
    /\ TdReturned /\ td_result.ok = <<>> /\ td_level = 0 /\ td_roots = {}
    /\ td_top_concepts # <<>>
    /\ td_batch_log # <<>> /\ LastAnswer.ev = "response"
    /\ LastAnswer.text = JsonDump(UnknownNameAnswer)

\* the uris of the pool on the n-th place of a narrower chain that starts at a
\* top concept
RECURSIVE ChainPlace(_)
ChainPlace(n) ==
    IF n = 1 THEN {td_top_concepts[i].uri : i \in 1..Len(td_top_concepts)}
    ELSE LET before == ChainPlace(n - 1)
         IN  {u \in PoolUris :
                 \E c \in Range(td_concepts) \cup Range(td_top_concepts) :
                     c.uri \in before /\ u \in Range(c.narrower)}
\* the number of concepts on the longest such chain (of an acyclic hierarchy)
Depth ==
    LET places == {n \in 1..(Len(td_concepts) + 1) : ChainPlace(n) # {}}
    IN  IF places = {} THEN 0 ELSE CHOOSE n \in places : \A k \in places : k <= n

\* C18: on an acyclic hierarchy the oracle is queried on at most as many
\* levels, root level included, as the hierarchy is deep.
C18_LevelsWithinDepth ==
    (Acyclic /\ td_asked_now # {}) => td_level + 1 <= Depth

\* C18 witness: the chain A > B > C > D is queried on its fourth level.
C18_Witness ==
    /\ td_concepts = ChainThesaurus.concepts /\ Acyclic /\ Depth = 4
    /\ td_level = 3 /\ td_asked_now = {"ex:D"}

\* the numerals among the score strings of the model, in thousandths
Numerals == [s \in {"0.9"} |-> 900]
\* the score an element of the array gives its name
ExpectedScore(item) ==
    IF item.t # "object" \/ "score" \notin DOMAIN item.m THEN None
    ELSE IF item.m.score.t = "number" THEN [float |-> item.m.score.milli]
    ELSE IF item.m.score.t = "string" /\ item.m.score.s \in DOMAIN Numerals
         THEN [float |-> Numerals[item.m.score.s]]
    ELSE None
\* the name an element of the array gives, if it gives one
Names(item) ==
    IF item.t = "string" THEN {Strip(item.s)}
    ELSE IF item.t = "object" /\ "concept" \in DOMAIN item.m THEN {Strip(item.m.concept.s)}
    ELSE {}
\* name -> score of an array: the last element that gives a name decides
ExpectedSelected(items) ==
    [n \in UNION {Names(items[i]) : i \in 1..Len(items)} |->
        LET last == CHOOSE i \in 1..Len(items) :
                        /\ n \in Names(items[i])
                        /\ \A j \in (i + 1)..Len(items) : n \notin Names(items[j])
        IN  ExpectedScore(items[last])]
\* every `concept` of the array is a string
ConceptsAreNames(items) ==
    \A i \in 1..Len(items) :
        (items[i].t = "object" /\ "concept" \in DOMAIN items[i].m) => items[i].m.concept.t = "string"
IsScore(v) == v = None \/ (DOMAIN v = {"float"} /\ v.float \in Nat)
\* the first batch of a level was just answered
FirstBatchAnswered ==
    /\ td_pc = "batch" /\ td_bi = 2 /\ td_attempt = 0
    /\ td_batch_log # <<>> /\ LastAnswer.ev = "response"

-----------------------------------------------------------------------------
(* _safe_chat_call, called once on its own.                                *)

ChatResponses == {"[]", "[\"A\"]"}
RateLimitMessages ==
    { "Rate limit reached for gpt-4.1.",
      "Rate limit reached. Please try again in 20s.",
      "Rate limit reached. Please try again in 1.5s. Visit the site.",
      "Rate limit reached. Please try again in 350ms.",
      "Rate limit reached. Please try again in 1.2.3s." }
OtherErrors == {"APIConnectionError", "AuthenticationError"}

InitChat ==
    /\ b_fn = "labels" /\ b_items = <<>> /\ b_overhead = 0
    /\ b_max_tokens = DefaultMaxTokens /\ b_pc = "done" /\ b_result = None
    /\ oracle = [responses |-> ChatResponses, messages |-> RateLimitMessages,
                 errors |-> OtherErrors, script |-> <<>>, scripted |-> <<>>]
    /\ c_pc = "loop" /\ c_max_retries \in 0..MaxRetries /\ c_attempt = 0
    /\ c_wait = None /\ c_result = None /\ c_log = <<>>
    /\ TdIdle
    /\ DedupIdle /\ ValIdle /\ PlIdle /\ FnIdle /\ SegIdle

NextChat == ChatStep

SpecChat == InitChat /\ [][NextChat]_vars

-----------------------------------------------------------------------------
(* Claims on _safe_chat_call.                                              *)

ChatDone == c_pc = "done"
LogCount(ev) == Cardinality({i \in 1..Len(c_log) : c_log[i].ev = ev})
ChatCalledAlone == oracle.responses = ChatResponses

\* C8: at most max_retries oracle calls are issued, a returned text is the
\* response of the first (and only) call that succeeded, and the call fails
\* with the exhaustion error exactly when max_retries consecutive calls were
\* answered with a rate-limit error.
C8_BoundedRetries ==
    /\ LogCount("call") <= c_max_retries
    /\ ChatDone =>
         /\ "ok" \in DOMAIN c_result =>
               /\ LogCount("response") = 1
               /\ c_log[Len(c_log)] = [ev |-> "response", text |-> c_result.ok]
         /\ (c_result = [exc |-> "TooManyAttempts"]) <=>
               (LogCount("rate_limit") = c_max_retries /\ LogCount("call") = c_max_retries)

\* C9: an error that is no rate-limit error ends the call at once: it is the
\* last event of the call, it is the error raised, and no sleep is in progress.
C9_OtherErrorPropagates ==
    \A i \in 1..Len(c_log) :
        c_log[i].ev = "error" =>
            /\ i = Len(c_log)
            /\ c_pc = "done"
            /\ c_result = [exc |-> c_log[i].kind]
            /\ c_wait = None

\* C9 witness: the error came after a rate-limited attempt, with attempts left.
C9_Witness ==
    /\ ChatCalledAlone /\ c_pc = "done"
    /\ c_log # <<>> /\ c_log[Len(c_log)].ev = "error"
    /\ c_attempt >= 1 /\ c_attempt + 1 < c_max_retries

\* What each rate-limit message of the model suggests, in milliseconds, as a
\* reader of the message has it: a number of seconds, or nothing usable.
SuggestedWait(msg) ==
    CASE msg = "Rate limit reached. Please try again in 20s." -> [ok |-> 20000]
      [] msg = "Rate limit reached. Please try again in 1.5s. Visit the site." -> [ok |-> 1500]
      [] OTHER -> None

\* C10: after a rate-limit error the wrapper sleeps for the suggested duration
\* when the message holds one, and for the default of 10 seconds otherwise.
C10_WaitsHintOrDefault ==
    \A i \in 1..Len(c_log) :
        c_log[i].ev = "rate_limit" =>
            /\ i < Len(c_log)
            /\ c_log[i + 1] = [ev |-> "sleep",
                               ms |-> IF SuggestedWait(c_log[i].msg) # None
                                      THEN SuggestedWait(c_log[i].msg).ok
                                      ELSE DefaultWait * 1000]

-----------------------------------------------------------------------------
(* The batchers, each called once on inputs drawn by InitBatch.            *)

SeqsUpTo(S, n) == UNION {[1..k -> S] : k \in 0..n}

\* texts of 0, 1, 3 (once normalised) and 16 tokens; labels of 0..MaxTok and 9 tokens
SegmentTexts == {"", "a", " a\nb\n", Rep("abcd", 4)}
LabelTexts == {Rep(c, n) : c \in {"a", "b"}, n \in 0..MaxTok} \cup {Rep("abc", 3)}

\* a Segment: its position in the transcript stands for start/end
SegmentLists ==
    {[i \in 1..Len(ts) |-> [start |-> i, text |-> ts[i]]] : ts \in SeqsUpTo(SegmentTexts, MaxLen)}
LabelLists == SeqsUpTo(LabelTexts, MaxLen)

Budgets == {PyInt(k * BudgetStep) : k \in 0..MaxBudgetSteps} \cup {DefaultMaxTokens}
Overheads == {k * OverheadStep : k \in 0..MaxOverhead}

InitBatch ==
    /\ b_fn \in {"segments", "labels"}
    /\ b_items \in (IF b_fn = "segments" THEN SegmentLists ELSE LabelLists)
    /\ b_overhead \in Overheads
    /\ b_max_tokens \in Budgets
    /\ b_pc = "call"
    /\ b_result = None
    /\ oracle = NoOracle
    /\ ChatIdle
    /\ TdIdle
    /\ DedupIdle /\ ValIdle /\ PlIdle /\ FnIdle /\ SegIdle

CallBatchSegments ==
    /\ b_pc = "call" /\ b_fn = "segments"
    /\ b_result' = BatchSegmentsByTokens(b_items, b_overhead, b_max_tokens)
    /\ b_pc' = "done"
    /\ UNCHANGED <<b_fn, b_items, b_overhead, b_max_tokens, oracle, chatVars, tdVars, callVars>>

CallBatchLabels ==
    /\ b_pc = "call" /\ b_fn = "labels"
    /\ b_result' = BatchConceptLabelsByTokens(b_items, b_overhead, b_max_tokens)
    /\ b_pc' = "done"
    /\ UNCHANGED <<b_fn, b_items, b_overhead, b_max_tokens, oracle, chatVars, tdVars, callVars>>

NextBatch == CallBatchSegments \/ CallBatchLabels

SpecBatch == InitBatch /\ [][NextBatch]_vars

-----------------------------------------------------------------------------
(* Claims on the batchers.                                                 *)

BatchReturned == b_pc = "done" /\ "ok" \in DOMAIN b_result
ItemCost(item) == IF b_fn = "segments" THEN SegmentTokenCount(item) ELSE LabelTokenCount(item)
BatchCost(batch) == SumSeq([i \in 1..Len(batch) |-> ItemCost(batch[i])])

\* C1: the batches a batcher returns are non-empty and their in-order
\* concatenation is the input list: nothing lost, duplicated or reordered.
C1_BatchesPartitionInput ==
    BatchReturned =>
        /\ \A i \in 1..Len(b_result.ok) : b_result.ok[i] # <<>>
        /\ Concat(b_result.ok) = b_items

\* C1 witness: a batcher has split an input of three items into several batches.
C1_Witness ==
    /\ BatchReturned /\ Len(b_items) = 3 /\ Len(b_result.ok) >= 2
    /\ \E i \in 1..Len(b_result.ok) : Len(b_result.ok[i]) >= 2

\* C2: overhead plus the costs of a batch stays within the budget, unless the
\* batch is a single item whose own cost exceeds budget minus overhead.
C2_BatchWithinBudget ==
    BatchReturned =>
        \A i \in 1..Len(b_result.ok) :
            LET batch == b_result.ok[i] IN
            \/ b_overhead + BatchCost(batch) <= b_max_tokens.int
            \/ Len(batch) = 1 /\ ItemCost(batch[1]) > b_max_tokens.int - b_overhead

\* C2 witness: a result holding both a full batch within the budget and an
\* oversized singleton.
C2_Witness ==
    /\ BatchReturned
    /\ \E i, j \in 1..Len(b_result.ok) :
          /\ Len(b_result.ok[i]) >= 2
          /\ Len(b_result.ok[j]) = 1
          /\ ItemCost(b_result.ok[j][1]) > b_max_tokens.int - b_overhead

\* C17: a batch is closed only when the next item would overflow the budget:
\* the overhead, the cost of a batch and the cost of the first item of the
\* batch after it exceed the budget together.
C17_ClosedOnlyOnOverflow ==
    BatchReturned =>
        \A i \in 1..(Len(b_result.ok) - 1) :
            b_overhead + BatchCost(b_result.ok[i]) + ItemCost(b_result.ok[i + 1][1])
                > b_max_tokens.int

\* C17 witness: a batch of two items was closed before a third item, and the
\* budget leaves room for more than one item.
C17_Witness ==
    /\ BatchReturned /\ Len(b_result.ok) >= 2
    /\ \E i \in 1..(Len(b_result.ok) - 1) :
          /\ Len(b_result.ok[i]) = 2
          /\ b_overhead + BatchCost(b_result.ok[i]) <= b_max_tokens.int

-----------------------------------------------------------------------------
(* matching.py: deduplicate_matches, called on a list and on its result.   *)

MaxMatches == 5      \* longest list given to deduplicate_matches

\* a MatchedConcept
MatchedConcept(concept, source, score) ==
    [concept |-> concept, source |-> source, score |-> score]

\* mutant of DedupLoop: a candidate is dropped when the same candidate (uri,
\* source and score) was kept before
RECURSIVE DedupLoopByValue(_, _, _)
DedupLoopByValue(matches, seen_uris, deduped) ==
    IF matches = <<>> THEN deduped
    ELSE DedupLoopByValue(Tail(matches), seen_uris,
             IF Head(matches) \in Range(deduped) THEN deduped
             ELSE Append(deduped, Head(matches)))

\* mutant of DedupLoop: a uri is forgotten once a duplicate of it is dropped
RECURSIVE DedupLoopForgets(_, _, _)
DedupLoopForgets(matches, seen_uris, deduped) ==
    IF matches = <<>> THEN deduped
    ELSE LET m == Head(matches) IN
         IF m.concept.uri \notin seen_uris
         THEN DedupLoopForgets(Tail(matches), seen_uris \cup {m.concept.uri}, Append(deduped, m))
         ELSE DedupLoopForgets(Tail(matches), seen_uris \ {m.concept.uri}, deduped)

\* the loop of deduplicate_matches (lines 173-176)
RECURSIVE DedupLoop(_, _, _)
DedupLoop(matches, seen_uris, deduped) ==
    IF matches = <<>> THEN deduped
    ELSE LET m == Head(matches) IN
         IF m.concept.uri \notin seen_uris
         THEN DedupLoop(Tail(matches), seen_uris \cup {m.concept.uri}, Append(deduped, m))
         ELSE DedupLoop(Tail(matches), seen_uris, deduped)

\* deduplicate_matches (lines 170-177)
DeduplicateMatches(matches) == DedupLoop(matches, {}, <<>>)

\* candidates of three concepts; A is found by two matchers
DedupCandidates ==
    {MatchedConcept(cA(<<>>), "Top-down matching", None),
     MatchedConcept(cA(<<>>), "Embedding similarities", [float |-> 500]),
     MatchedConcept(cB(<<>>), "Exact occurrence", [float |-> 1000]),
     MatchedConcept(cC(<<>>), "Top-down matching", None)}

InitDedup ==
    /\ b_fn = "labels" /\ b_items = <<>> /\ b_overhead = 0
    /\ b_max_tokens = DefaultMaxTokens /\ b_pc = "done" /\ b_result = None
    /\ oracle = NoOracle /\ ChatIdle /\ TdIdle /\ ValIdle /\ PlIdle /\ FnIdle /\ SegIdle
    /\ d_matches \in SeqsUpTo(DedupCandidates, MaxMatches)
    /\ d_pc = "call" /\ d_result = None /\ d_again = None

\* deduplicate_matches(matches)
CallDeduplicate ==
    /\ d_pc = "call"
    /\ d_result' = DeduplicateMatches(d_matches)
    /\ d_pc' = "once"
    /\ UNCHANGED <<d_matches, d_again, batchVars, oracle, chatVars, tdVars, valVars, plVars, fnVars, segVars>>

\* deduplicate_matches(the list it returned)
CallDeduplicateAgain ==
    /\ d_pc = "once"
    /\ d_again' = DeduplicateMatches(d_result)
    /\ d_pc' = "twice"
    /\ UNCHANGED <<d_matches, d_result, batchVars, oracle, chatVars, tdVars, valVars, plVars, fnVars, segVars>>

NextDedup == CallDeduplicate \/ CallDeduplicateAgain

SpecDedup == InitDedup /\ [][NextDedup]_vars

-----------------------------------------------------------------------------
(* Claims on deduplicate_matches.                                          *)

UriList(matches) == [i \in 1..Len(matches) |-> matches[i].concept.uri]
\* the positions of the first occurrence of each uri
FirstPositions(matches) ==
    {i \in 1..Len(matches) : \A j \in 1..(i - 1) : matches[j].concept.uri # matches[i].concept.uri}
\* the k-th smallest element of a set of positions
Kth(P, k) == CHOOSE i \in P : Cardinality({j \in P : j <= i}) = k
FirstOccurrences(matches) ==
    [k \in 1..Cardinality(FirstPositions(matches)) |-> matches[Kth(FirstPositions(matches), k)]]

\* C11: deduplicate_matches returns the first occurrence of each uri, in input
\* order, and drops every later candidate of a seen uri, whatever its source
\* or score.
C11_KeepsFirstOccurrences ==
    d_pc \in {"once", "twice"} => d_result = FirstOccurrences(d_matches)

\* C11 witness: the second candidate of A, of another source and score, was
\* dropped and the first one kept.
C11_Witness ==
    /\ d_pc = "once" /\ Len(d_matches) = 3
    /\ d_matches[1] = MatchedConcept(cA(<<>>), "Top-down matching", None)
    /\ d_matches[3] = MatchedConcept(cA(<<>>), "Embedding similarities", [float |-> 500])
    /\ d_matches[2].concept.uri = "ex:B"
    /\ d_result = <<d_matches[1], d_matches[2]>>

NoRepeatedUri(matches) == Cardinality(FirstPositions(matches)) = Len(matches)

\* C12: deduplicate_matches is idempotent; a list without repeated uri is
\* returned unchanged, and [A, B, A, C, B] gives [A, B, C].
C12_Idempotent ==
    /\ d_pc = "twice" => d_again = d_result
    /\ (d_pc \in {"once", "twice"} /\ NoRepeatedUri(d_matches)) => d_result = d_matches
    /\ (d_pc \in {"once", "twice"} /\ UriList(d_matches) = <<"ex:A", "ex:B", "ex:A", "ex:C", "ex:B">>)
          => UriList(d_result) = <<"ex:A", "ex:B", "ex:C">>

\* C12 witness: [A, B, A, C, B] was deduplicated twice.
C12_Witness ==
    /\ d_pc = "twice"
    /\ UriList(d_matches) = <<"ex:A", "ex:B", "ex:A", "ex:C", "ex:B">>
    /\ d_again = d_result /\ Len(d_result) = 3

-----------------------------------------------------------------------------
(* matching.py: llm_validate_segment_matches, called once.                 *)

MaxCandidates == 2   \* longest list of candidates given to the validation

\* mutant of ValidatedIn: the score of the response replaces the candidate's
\* score also when the response gives none
ValidatedWithResponseScore(concepts, name_to_score) ==
    LET named == SelectSeq(concepts, LAMBDA mc : Strip(mc.concept.name) \in DOMAIN name_to_score)
    IN  [i \in 1..Len(named) |->
            MatchedConcept(named[i].concept, named[i].source,
                           name_to_score[Strip(named[i].concept.name)])]

\* lines 138-151: the candidates whose stripped name is in name_to_score, in
\* list order, with the new score if there is one
ValidatedIn(concepts, name_to_score) ==
    LET named == SelectSeq(concepts, LAMBDA mc : Strip(mc.concept.name) \in DOMAIN name_to_score)
    IN  [i \in 1..Len(named) |->
            LET new_score == name_to_score[Strip(named[i].concept.name)]
            IN  MatchedConcept(named[i].concept, named[i].source,
                               IF new_score # None THEN new_score ELSE named[i].score)]

\* _get_revelant_matched_concepts_from_response (lines 103-151); its lines
\* 107-136 work out name_to_score as lines 75-89 work out name_with_score
GetRevelantMatchedConceptsFromResponse(response, concepts) ==
    LET name_to_score == SelectedBy[response] IN
    IF IsExc(name_to_score) THEN name_to_score
    ELSE IF DOMAIN name_to_score.ok = {} THEN [ok |-> <<>>]
    ELSE [ok |-> ValidatedIn(concepts, name_to_score.ok)]

\* lines 265-268 and chat_router._chat: the prompt of the candidates' labels is
\* given to _chat (the model keeps no prompt: no answer depends on it)
ValSend ==
    /\ v_pc = "start"
    /\ IF StartsWith(v_model, "gpt-")
       THEN /\ ChatEntered(DefaultMaxRetries)
            /\ v_pc' = "chat"
            /\ UNCHANGED v_result
       ELSE /\ v_pc' = "done"
            /\ v_result' = [exc |-> "ValueError"]
            /\ UNCHANGED chatVars
    /\ UNCHANGED <<v_matched_concepts, v_model, oracle, batchVars, tdVars, dedupVars, plVars, fnVars, segVars>>

\* mutant of ValReceive: the candidates that are not validated are removed from
\* the list that was passed in
ValReceiveInPlace ==
    /\ v_pc = "chat" /\ c_pc = "done"
    /\ v_result' = IF IsExc(c_result) THEN c_result
                   ELSE GetRevelantMatchedConceptsFromResponse(c_result.ok, v_matched_concepts)
    /\ v_pc' = "done"
    /\ v_matched_concepts' = IF IsOk(v_result') THEN v_result'.ok ELSE v_matched_concepts
    /\ UNCHANGED <<v_model, oracle, chatVars, batchVars, tdVars, dedupVars, plVars, fnVars, segVars>>

\* lines 268-271: _chat is over; its exception leaves the function, its text
\* is parsed and the validated candidates are returned
ValReceive ==
    /\ v_pc = "chat" /\ c_pc = "done"
    /\ v_result' = IF IsExc(c_result) THEN c_result
                   ELSE GetRevelantMatchedConceptsFromResponse(c_result.ok, v_matched_concepts)
    /\ v_pc' = "done"
    /\ UNCHANGED <<v_matched_concepts, v_model, oracle, chatVars, batchVars, tdVars,
                   dedupVars, plVars, fnVars, segVars>>

\* candidates as the embedding and the exact matcher give them
ValCandidates ==
    {MatchedConcept(cA(<<>>), "Embedding similarities", [float |-> 500]),
     MatchedConcept(cA(<<>>), "Exact occurrence", [float |-> 1000]),
     MatchedConcept(cB(<<>>), "Exact occurrence", [float |-> 1000]),
     MatchedConcept(cX(<<>>), "Embedding similarities", [float |-> 300])}

ValOracle ==
    [responses |-> ResponsesFor(DiamondThesaurus),
     messages |-> {"Rate limit reached for gpt-4.1."},
     errors |-> {"APIConnectionError"}, script |-> <<>>, scripted |-> <<>>]

InitValidate ==
    /\ b_fn = "labels" /\ b_items = <<>> /\ b_overhead = 0
    /\ b_max_tokens = DefaultMaxTokens /\ b_pc = "done" /\ b_result = None
    /\ oracle = ValOracle /\ ChatIdle /\ TdIdle /\ DedupIdle /\ PlIdle /\ FnIdle /\ SegIdle
    /\ v_matched_concepts \in SeqsUpTo(ValCandidates, MaxCandidates)
    /\ v_model \in TopdownModels
    /\ v_pc = "start" /\ v_result = None

NextValidate == ValSend \/ ChatStep \/ ValReceive

SpecValidate == InitValidate /\ [][NextValidate]_vars

-----------------------------------------------------------------------------
(* Claims on llm_validate_segment_matches.                                 *)

ValReturned == v_pc = "done" /\ IsOk(v_result)
ValRaised == v_pc = "done" /\ IsExc(v_result)
\* the names the response names, with the score it gives each
NamedByResponse == SelectedBy[c_result.ok].ok
\* the positions of the candidates the response names
NamedPositions ==
    {i \in 1..Len(v_matched_concepts) :
        Strip(v_matched_concepts[i].concept.name) \in DOMAIN NamedByResponse}

\* C14: the validation returns the candidates the response names, in input
\* order, each with its source and with the score of the response if it
\* gives a usable one, its own score otherwise; nothing else.
C14_ValidatedAreNamedCandidates ==
    (ValReturned /\ IsOk(c_result)) =>
        /\ Len(v_result.ok) = Cardinality(NamedPositions)
        /\ \A k \in 1..Len(v_result.ok) :
              LET mc == v_matched_concepts[Kth(NamedPositions, k)]
                  given == NamedByResponse[Strip(mc.concept.name)]
              IN  /\ v_result.ok[k].concept = mc.concept
                  /\ v_result.ok[k].source = mc.source
                  /\ v_result.ok[k].score = IF given = None THEN mc.score ELSE given

\* C14 witness: of the candidates [B, A] the response names A with the score
\* "0.9" and B with none; both are returned, in input order.
C14_Witness ==
    /\ ValReturned /\ IsOk(c_result) /\ c_result.ok = JsonDump(StringScoredAnswer)
    /\ UriList(v_matched_concepts) = <<"ex:B", "ex:A">>
    /\ v_result.ok = <<v_matched_concepts[1],
                       [v_matched_concepts[2] EXCEPT !.score = [float |-> 900]]>>

\* the oracle call has failed, or its response is malformed
ValOracleFailed == c_pc = "done" /\ IsExc(c_result)
ValAnsweredMalformed == c_pc = "done" /\ IsOk(c_result) /\ c_result.ok \in MalformedResponses

\* C15: a failed oracle call and a malformed response both make the
\* validation return the empty list instead of raising.
C15_FailureGivesEmpty ==
    (v_pc = "done" /\ (ValOracleFailed \/ ValAnsweredMalformed)) => v_result = [ok |-> <<>>]

-----------------------------------------------------------------------------
(* matching_pipeline.py: one turn of the loop of main over the selected    *)
(* segments (lines 84-92).  The lists of the two matchers are inputs.      *)

\* lines 85-88: the embedding and the exact matcher have returned;
\* non_validated_matches is given to llm_validate_segment_matches (line 89)
PlMatch ==
    /\ p_pc = "match"
    /\ \E embedding_matches \in {<<>>,
                                 <<MatchedConcept(cB(<<>>), "Embedding similarities", [float |-> 500])>>,
                                 <<MatchedConcept(cB(<<>>), "Embedding similarities", [float |-> 500]),
                                   MatchedConcept(cA(<<"ex:B">>), "Embedding similarities", [float |-> 300])>>},
          exact_matches \in {<<>>, <<MatchedConcept(cX(<<>>), "Exact occurrence", [float |-> 1000])>>} :
          /\ p_embedding_matches' = embedding_matches
          /\ p_exact_matches' = exact_matches
          /\ v_matched_concepts' = embedding_matches \o exact_matches
    /\ v_pc' = "start" /\ p_pc' = "validate"
    /\ UNCHANGED <<p_enriched, v_model, v_result, oracle, chatVars, tdVars, batchVars, dedupVars, fnVars, segVars>>

\* lines 89-90: llm_validate_segment_matches is over; its exception leaves
\* main, its list is kept and match_segment_topdown is called
PlValidated ==
    /\ p_pc = "validate" /\ v_pc = "done"
    /\ IF IsExc(v_result)
       THEN /\ p_enriched' = v_result /\ p_pc' = "done"
            /\ UNCHANGED td_pc
       ELSE /\ p_pc' = "topdown" /\ td_pc' = "start"
            /\ UNCHANGED p_enriched
    /\ UNCHANGED <<p_embedding_matches, p_exact_matches, valVars, oracle, chatVars, batchVars,
                   dedupVars, fnVars, segVars, tdInputs, tdHistory, td_level_concepts, td_batches, td_bi,
                   td_attempt, td_relevant, td_current_matches, td_seen_uris, td_matches,
                   td_result>>

\* mutant of AllMatches: the validated matches come first
AllMatchesValidatedFirst == v_result.ok \o td_result.ok

\* line 91: all_matches
AllMatches == td_result.ok \o v_result.ok

\* lines 90-92: match_segment_topdown is over; its exception leaves main, its
\* list and the validated one make the matched_concepts of the EnrichedSegment
PlMerge ==
    /\ p_pc = "topdown" /\ td_pc = "done"
    /\ p_enriched' = IF IsExc(td_result) THEN td_result ELSE [ok |-> AllMatches]
    /\ p_pc' = "done"
    /\ UNCHANGED <<p_embedding_matches, p_exact_matches, valVars, oracle, chatVars, batchVars,
                   dedupVars, fnVars, segVars, tdVars>>

PlOracle ==
    [responses |-> {NamesArray(l) : l \in SubLists(<<"A", "B", "X">>)} \cup {ProseResponse},
     messages |-> {"Rate limit reached for gpt-4.1."},
     errors |-> {"APIConnectionError"}, script |-> <<>>, scripted |-> <<>>]

\* descriptive_concepts and descriptive_top_concepts are the scenario pool
InitPipeline ==
    /\ b_fn = "labels" /\ b_items = <<>> /\ b_overhead = 0
    /\ b_max_tokens = DefaultMaxTokens /\ b_pc = "done" /\ b_result = None
    /\ oracle = PlOracle /\ ChatIdle /\ DedupIdle /\ FnIdle /\ SegIdle
    /\ td_concepts = ScenarioThesaurus.concepts
    /\ td_top_concepts = ScenarioThesaurus.top_concepts
    /\ td_segment = [text |-> SegmentText]
    /\ td_model \in TopdownModels
    /\ td_max_tokens = 800000
    /\ td_pc = "idle" /\ td_level_concepts = <<>> /\ td_batches = <<>> /\ td_bi = 1
    /\ td_attempt = 0 /\ td_relevant = <<>> /\ td_current_matches = <<>>
    /\ td_seen_uris = {} /\ td_matches = <<>> /\ td_result = None
    /\ td_level = 0 /\ td_asked_before = {} /\ td_asked_now = {} /\ td_roots = {}
    /\ td_batch_log = <<>>
    /\ v_matched_concepts = <<>> /\ v_model = td_model /\ v_pc = "idle" /\ v_result = None
    /\ p_pc = "match" /\ p_embedding_matches = <<>> /\ p_exact_matches = <<>>
    /\ p_enriched = None

NextPipeline ==
    \/ PlMatch
    \/ ValSend
    \/ ChatStep
    \/ ValReceive
    \/ PlValidated
    \/ TdRootStart
    \/ TdSendBatch
    \/ TdReceive
    \/ TdStop
    \/ TdDescend
    \/ PlMerge

SpecPipeline == InitPipeline /\ [][NextPipeline]_vars

-----------------------------------------------------------------------------
(* Claims on the matched_concepts of an EnrichedSegment.                   *)

PlEnriched == p_pc = "done" /\ IsOk(p_enriched)

\* C13: the matched_concepts of an EnrichedSegment hold no two candidates of
\* one concept uri.
C13_EnrichedIsDeduplicated ==
    PlEnriched => NoRepeatedUri(p_enriched.ok)

\* C19: the matched_concepts are the top-down matches, in their order, then
\* the validated matches, in their order, nothing removed.
C19_TopdownThenValidated ==
    PlEnriched =>
        /\ Len(p_enriched.ok) = Len(td_result.ok) + Len(v_result.ok)
        /\ SubSeq(p_enriched.ok, 1, Len(td_result.ok)) = td_result.ok
        /\ SubSeq(p_enriched.ok, Len(td_result.ok) + 1, Len(p_enriched.ok)) = v_result.ok

\* C19 witness: the top-down matcher gave [B] and the validation kept [B, X]
\* with B a candidate of the embedding matcher.
C19_Witness ==
    /\ PlEnriched
    /\ UriList(td_result.ok) = <<"ex:B">>
    /\ UriList(v_result.ok) = <<"ex:B", "ex:X">>
    /\ UriList(p_enriched.ok) = <<"ex:B", "ex:B", "ex:X">>


-----------------------------------------------------------------------------
(* The functions that ask no oracle, each called once on arguments drawn   *)
(* from bounded sets.                                                      *)

\* the responses handed to _clean_json_output: leading whitespace, an opening
\* marker, a body and a tail
Leads == {"", " "}
Openers == {"", FenceJson, Fence, "<think>x</think>", "<think>x"}
Bodies == {"[]", "[\"A\"]"}
Tails == {"", Fence, "\n~~~\n", "</think>[]"}
ResponseTexts == {l \o o \o b \o t : l \in Leads, o \in Openers, b \in Bodies, t \in Tails}

InitClean ==
    /\ f_fn = "clean"
    /\ f_args \in {[response_text |-> t] : t \in ResponseTexts}
    /\ f_pc = "start" /\ f_result = None

CallCleanJsonOutput ==
    /\ f_fn = "clean" /\ f_pc = "start"
    /\ f_result' = CleanJsonOutput(f_args.response_text)
    /\ f_pc' = "done"
    /\ UNCHANGED <<f_fn, f_args, batchVars, oracle, chatVars, tdVars, dedupVars, valVars, plVars, segVars>>

\* ---- match_segment_to_thesaurus_based_on_embeddings (lines 248-258)

MaxEmbedded == 3
MaxTopK == 4

ExactSource == "Exact occurrence"
EmbeddingSource == "Embedding similarities"

\* the concepts that were embedded, in the order of the rows of embedded_concepts
EmbeddedConcepts == <<cA(<<>>), cB(<<>>), cC(<<>>), cD(<<>>), cX(<<>>)>>

\* cosine similarities in thousandths, one for each embedded concept
Similarities == UNION {[1..n -> {300, 500}] : n \in 0..MaxEmbedded}

Reverse(s) == [i \in 1..Len(s) |-> s[Len(s) + 1 - i]]

\* similarities.argsort(): the orders of the indices in which the values
\* ascend.  The default sort of numpy is not stable, so equal values come in
\* any order.
ArgSorts(similarities) ==
    LET n == Len(similarities) IN
    {order \in [1..n -> 1..n] :
        /\ \A i, j \in 1..n : i # j => order[i] # order[j]
        /\ \A i, j \in 1..n : i < j => similarities[order[i]] <= similarities[order[j]]}

\* s[-k:] for k >= 0: the last k items, and the whole of s for k = 0 (-0 is 0)
LastItems(s, k) ==
    IF k = 0 THEN s ELSE SubSeq(s, Max(1, Len(s) - k + 1), Len(s))

EmbeddingMatches(similarities, concepts, top_indices) ==
    [i \in 1..Len(top_indices) |->
        MatchedConcept(concepts[top_indices[i]], EmbeddingSource,
                       [float |-> similarities[top_indices[i]]])]

InitEmbeddings ==
    /\ f_fn = "embeddings"
    /\ f_args \in {[similarities |-> sim, concepts |-> SubSeq(EmbeddedConcepts, 1, Len(sim)),
                    top_k |-> k] : sim \in Similarities, k \in 0..MaxTopK}
    /\ f_pc = "start" /\ f_result = None

CallMatchEmbeddings ==
    /\ f_fn = "embeddings" /\ f_pc = "start"
    /\ \E order \in ArgSorts(f_args.similarities) :
        f_result' = [ok |-> EmbeddingMatches(f_args.similarities, f_args.concepts,
                                             Reverse(LastItems(order, f_args.top_k)))]
    /\ f_pc' = "done"
    /\ UNCHANGED <<f_fn, f_args, batchVars, oracle, chatVars, tdVars, dedupVars, valVars, plVars, segVars>>

\* ---- match_segment_to_thesaurus_based_on_exact_occurrence (lines 228-246)

UpperLetters == "ABCDEFGHIJKLMNOPQRSTUVWXYZ"
LowerLetters == "abcdefghijklmnopqrstuvwxyz"
WordChars ==
    UNION {{CharAt(a, i) : i \in 1..Len(a)} : a \in {UpperLetters, LowerLetters, "0123456789_"}}

\* str.lower on the characters of the texts
RECURSIVE Lower(_)
Lower(s) ==
    IF s = "" THEN ""
    ELSE LET at == Find(UpperLetters, CharAt(s, 1), 1)
         IN  (IF at = 0 THEN CharAt(s, 1) ELSE CharAt(LowerLetters, at))
                 \o Lower(SubSeq(s, 2, Len(s)))

\* the character of s at position i is a word character (none outside s)
IsWordAt(s, i) == i >= 1 /\ i <= Len(s) /\ CharAt(s, i) \in WordChars

\* \b holds before position i of s: a word character on one side only
WordBoundary(s, i) == IsWordAt(s, i - 1) # IsWordAt(s, i)

\* re.search(r'\b' + re.escape(name) + r'\b', text): the escaped name matches
\* its own characters, with a word boundary before and after them
SearchBounded(name, text) ==
    \E i \in 1..(Len(text) + 1) :
        /\ i + Len(name) - 1 <= Len(text)
        /\ SubSeq(text, i, i + Len(name) - 1) = name
        /\ WordBoundary(text, i)
        /\ WordBoundary(text, i + Len(name))

ExactOccurrenceMatches(segment, concepts) ==
    LET text == Lower(segment.text)
        hit(concept) == SearchBounded(Lower(concept.name), text)
    IN  [i \in 1..Len(SelectSeq(concepts, hit)) |->
            MatchedConcept(SelectSeq(concepts, hit)[i], ExactSource, [float |-> 1000])]

MaxNamed == 2

SegmentTextsSearched ==
    {"", "In Westerbork.", "de Westerborkers", "Westerbork (kamp) lag", "(kamp)x"}
NamedConcepts ==
    {Concept("ex:" \o name, name, "", <<>>) :
        name \in {"Wester", "WESTERBORK", "Westerbork (kamp)", "kamp", ""}}

InitExact ==
    /\ f_fn = "exact"
    /\ f_args \in {[segment |-> [text |-> t], concepts |-> cs] :
                    t \in SegmentTextsSearched, cs \in SeqsUpTo(NamedConcepts, MaxNamed)}
    /\ f_pc = "start" /\ f_result = None

CallMatchExact ==
    /\ f_fn = "exact" /\ f_pc = "start"
    /\ f_result' = [ok |-> ExactOccurrenceMatches(f_args.segment, f_args.concepts)]
    /\ f_pc' = "done"
    /\ UNCHANGED <<f_fn, f_args, batchVars, oracle, chatVars, tdVars, dedupVars, valVars, plVars, segVars>>

InitFunctions ==
    /\ (InitClean \/ InitEmbeddings \/ InitExact)
    /\ b_fn = "labels" /\ b_items = <<>> /\ b_overhead = 0
    /\ b_max_tokens = DefaultMaxTokens /\ b_pc = "done" /\ b_result = None
    /\ oracle = NoOracle /\ ChatIdle /\ TdIdle /\ DedupIdle /\ ValIdle /\ PlIdle /\ SegIdle

NextFunctions ==
    \/ CallCleanJsonOutput
    \/ CallMatchEmbeddings
    \/ CallMatchExact

SpecFunctions == InitFunctions /\ [][NextFunctions]_vars

FnReturned == f_pc = "done" /\ IsOk(f_result)

-----------------------------------------------------------------------------
(* Claims on _clean_json_output.                                           *)

\* the response opens with the reasoning-preamble marker
OpensWithPreamble(text) ==
    LET t == Strip(text) IN
    ~StartsWith(t, Fence) /\ StartsWith(t, ThinkOpen)

\* what follows the opening marker of the trimmed response: the text after a
\* fence (with or without its language tag), everything after the closing
\* marker of a reasoning preamble, the whole text otherwise
AfterOpening(text) ==
    LET t == Strip(text)
        close == Find(t, ThinkClose, 1)
    IN  IF StartsWith(t, FenceJson) THEN SubSeq(t, Len(FenceJson) + 1, Len(t))
        ELSE IF StartsWith(t, Fence) THEN SubSeq(t, Len(Fence) + 1, Len(t))
        ELSE IF StartsWith(t, ThinkOpen) /\ close # 0
            THEN SubSeq(t, close + Len(ThinkClose), Len(t))
        ELSE t

WithoutTrailingFence(t) ==
    IF EndsWith(t, Fence) THEN SubSeq(t, 1, Len(t) - Len(Fence)) ELSE t

\* C21: _clean_json_output returns the text after a leading fence marker, or
\* everything that follows the closing marker of a leading reasoning preamble,
\* with one trailing fence marker removed and the surrounding whitespace
\* trimmed (stated for the responses whose preamble, if any, is closed).
C21_CleanedAsDescribed ==
    (/\ f_fn = "clean" /\ f_pc = "done"
     /\ OpensWithPreamble(f_args.response_text)
            => Find(f_args.response_text, ThinkClose, 1) # 0)
        => f_result = [ok |-> Strip(WithoutTrailingFence(AfterOpening(f_args.response_text)))]


-----------------------------------------------------------------------------
(* Claims on match_segment_to_thesaurus_based_on_embeddings.               *)

\* the indices in descending similarity, equal similarities in the order of
\* the concept list
DescendingStable(similarities) ==
    LET n == Len(similarities) IN
    CHOOSE order \in [1..n -> 1..n] :
        /\ \A i, j \in 1..n : i # j => order[i] # order[j]
        /\ \A i, j \in 1..n : i < j =>
            \/ similarities[order[i]] > similarities[order[j]]
            \/ similarities[order[i]] = similarities[order[j]] /\ order[i] < order[j]

\* C22: for k >= 0 and n concepts the embeddings matcher returns exactly
\* min(k, n) candidates, the k most similar concepts in descending similarity,
\* equal similarities in the order of the concept list, each with source
\* embedding similarity and its similarity as score.
C22_TopKDescendingStable ==
    (f_fn = "embeddings" /\ f_pc = "done") =>
        f_result = [ok |-> EmbeddingMatches(f_args.similarities, f_args.concepts,
                        SubSeq(DescendingStable(f_args.similarities), 1,
                               Min(f_args.top_k, Len(f_args.similarities))))]


-----------------------------------------------------------------------------
(* Claims on match_segment_to_thesaurus_based_on_exact_occurrence.         *)

\* the name occurs in the text, whatever the case of its letters, with no
\* word character next to it on either side
OccursAsWholeWords(name, text) ==
    /\ name # ""
    /\ \E i \in 1..Len(text) :
        /\ i + Len(name) - 1 <= Len(text)
        /\ SubSeq(Lower(text), i, i + Len(name) - 1) = Lower(name)
        /\ ~IsWordAt(text, i - 1)
        /\ ~IsWordAt(text, i + Len(name))

OccurringConcepts(segment, concepts) ==
    LET occurs(concept) == OccursAsWholeWords(concept.name, segment.text)
    IN  SelectSeq(concepts, occurs)

\* C23: the exact-occurrence matcher yields one candidate, with score 1.0 and
\* source exact occurrence, for exactly the concepts whose full name occurs in
\* the segment text as whole words, case-insensitively, in the order of the
\* concept list.
C23_WholeWordOccurrences ==
    (f_fn = "exact" /\ f_pc = "done") =>
        LET occurring == OccurringConcepts(f_args.segment, f_args.concepts)
        IN  f_result = [ok |-> [i \in 1..Len(occurring) |->
                            MatchedConcept(occurring[i], ExactSource, [float |-> 1000])]]


-----------------------------------------------------------------------------
(* More claims on the batchers.                                            *)

\* C24: for every input list and every budget, the default budget of a call
\* without max_tokens included, a batcher returns a list of batches and raises
\* no error.
C24_BatchingNeverFails ==
    b_pc = "done" => IsOk(b_result)


-----------------------------------------------------------------------------
(* More claims on match_segment_topdown.                                   *)

Exhausted == [exc |-> "TooManyAttempts"]

\* C25: when an oracle call of match_segment_topdown, at the root level or at
\* a narrower one, uses up its retries, the call of match_segment_topdown ends
\* with the exhaustion error and returns no list.
C25_ExhaustionPropagates ==
    /\ [][(td_pc = "chat" /\ c_pc = "done" /\ c_result = Exhausted)
              => (td_pc' = "done" /\ td_result' = Exhausted)]_vars
    /\ [][td_pc = "done" => td_result' = td_result]_vars

\* the retries were used up on a narrower level, after a level had given matches
C25_Witness ==
    /\ TdRaised /\ td_result = Exhausted
    /\ td_level >= 2 /\ td_matches # <<>>

\* the concept is in the pool and one of the matches lists it as narrower
NarrowerOfMatched(concept, matched) ==
    /\ concept \in Range(td_concepts)
    /\ \E i \in 1..Len(matched) : concept.uri \in Range(matched[i].concept.narrower)

\* the concepts the call may use: the pool and the top concepts
Known == Range(td_concepts) \cup Range(td_top_concepts)

\* C26: every concept returned by match_segment_topdown is in the pool and is
\* listed as narrower by a concept matched on the preceding level (a relevant
\* root match for the first narrower level); narrower uris that are not in the
\* pool give no result and no error.
C26_ResultsAreNarrowerOfMatched ==
    /\ []((td_pc \in {"batch", "chat"} /\ td_level >= 1) =>
            /\ \A c \in Range(td_level_concepts) : NarrowerOfMatched(c, td_current_matches)
            /\ \A i \in 1..Len(td_relevant) :
                  NarrowerOfMatched(td_relevant[i].concept, td_current_matches))
    /\ [](TdReturned =>
            \A i \in 1..Len(td_result.ok) :
                /\ td_result.ok[i].concept \in Range(td_concepts)
                /\ \E parent \in Known :
                      /\ parent.uri \in td_roots \cup Uris(td_result.ok)
                      /\ td_result.ok[i].concept.uri \in Range(parent.narrower))
    /\ [][(td_pc = "batch" /\ td_bi > Len(td_batches)) => ~IsExc(td_result')]_vars

\* a call on the pool with narrower uris outside the pool has returned a match
C26_Witness ==
    /\ td_concepts = DanglingThesaurus.concepts
    /\ TdReturned /\ td_result.ok # <<>>

\* C27: within one call of match_segment_topdown the oracle calls are
\* sequential: at most one is outstanding, the batches of a level are queried
\* in batch order, and no query of the next level is made before every batch of
\* the level is answered.
C27_OracleCallsSequential ==
    /\ [](c_pc # "idle" => (td_pc = "chat" /\ td_bi <= Len(td_batches)))
    /\ [][(td_pc # "chat" /\ td_pc' = "chat") =>
            /\ c_pc = "idle"
            /\ td_batch_log'[Len(td_batch_log')] =
                   [ev |-> "request",
                    prompt |-> BuildTopdownMatchingPrompt(td_batches[td_bi], td_segment.text)]]_vars
    /\ [][c_pc' = "waiting" => c_pc = "loop"]_vars
    /\ [][td_bi' # td_bi =>
            \/ td_bi' = td_bi + 1 /\ td_pc = "chat" /\ c_pc = "done"
            \/ td_bi' = 1 /\ td_pc = "batch" /\ td_bi > Len(td_batches)]_vars
    /\ [][(td_level' # td_level \/ (td_pc # "start" /\ td_batches' # td_batches)) =>
            (td_pc = "batch" /\ td_bi > Len(td_batches) /\ c_pc = "idle")]_vars

\* the second batch of a narrower level is with the oracle
C27_Witness ==
    /\ td_level >= 1 /\ Len(td_batches) >= 2
    /\ td_bi = 2 /\ td_pc = "chat" /\ c_pc = "waiting"


-----------------------------------------------------------------------------
(* More claims on _safe_chat_call.                                         *)

\* C28: every backoff sleep of _safe_chat_call is followed by another attempt:
\* after the rate-limited attempt that uses up the last of the max_retries
\* attempts the call does not sleep, it fails with the exhaustion error at once.
C28_NoSleepBeforeExhaustion ==
    /\ c_pc = "sleeping" => c_attempt + 1 < c_max_retries
    /\ (c_pc = "done" /\ c_result = Exhausted /\ c_log # <<>>)
           => c_log[Len(c_log)].ev # "sleep"


-----------------------------------------------------------------------------
(* More claims on the matching of one segment in main.                     *)

-----------------------------------------------------------------------------
(* Claims on the uris of the list match_segment_topdown returns.           *)

\* C30: the list returned by match_segment_topdown holds each concept uri at
\* most once, whatever the oracle answers, also when a level is split into
\* several batches.
C30_ResultUrisDistinct ==
    TdReturned => NoRepeatedUri(td_result.ok)


-----------------------------------------------------------------------------
(* segments.py: _segment_with_llm, with                                    *)
(* batching._first_batch_with_x_minutes_of_captions.                       *)

MaxCaptions == 2     \* longest caption list given to _segment_with_llm
MaxMinutes == 1      \* largest minutes_per_batch

\* a Caption: start and end in seconds
Caption(start, end, text) == [start |-> start, end |-> end, text |-> text]

\* mutant of FirstBatchWithXMinutesOfCaptions: a caption that ends at the limit
\* is beyond it
FirstBatchBelowLimit(captions, max_minutes) ==
    IF captions = <<>> THEN <<>>
    ELSE LET end_limit == captions[1].end + max_minutes * 60
             beyond == {i \in 1..Len(captions) : captions[i].end >= end_limit}
         IN  IF beyond = {} THEN captions
             ELSE SubSeq(captions, 1, (CHOOSE i \in beyond : \A j \in beyond : i <= j) - 1)

\* _first_batch_with_x_minutes_of_captions (batching.py lines 15-33): the
\* captions before the first one that ends after the limit
FirstBatchWithXMinutesOfCaptions(captions, max_minutes) ==
    IF captions = <<>> THEN <<>>
    ELSE LET end_limit == captions[1].end + max_minutes * 60
             beyond == {i \in 1..Len(captions) : captions[i].end > end_limit}
         IN  IF beyond = {} THEN captions
             ELSE SubSeq(captions, 1, (CHOOSE i \in beyond : \A j \in beyond : i <= j) - 1)

\* " ".join(c.text.replace("\n", " ").strip() for c in segment_captions)
RECURSIVE JoinCaptionTexts(_)
JoinCaptionTexts(segment_captions) ==
    IF segment_captions = <<>> THEN ""
    ELSE Strip(ReplaceNewlines(Head(segment_captions).text))
             \o (IF Len(segment_captions) > 1 THEN " " ELSE "")
             \o JoinCaptionTexts(Tail(segment_captions))

\* _build_segment_from_indices (lines 14-27) on the parsed value of
\* "caption_indices" (indices count from 0).  Iterating a number or null, and
\* comparing an element that is no number with 0, raise TypeError; an index
\* outside the captions is left out.
BuildSegmentFromIndices(captions, indices) ==
    IF indices.t = "array"
    THEN IF \E k \in 1..Len(indices.items) : indices.items[k].t # "int"
         THEN [exc |-> "TypeError"]
         ELSE LET valid == SelectSeq(indices.items,
                                     LAMBDA idx : 0 <= idx.n /\ idx.n < Len(captions))
                  segment_captions == [k \in 1..Len(valid) |-> captions[valid[k].n + 1]]
              IN  IF segment_captions = <<>> THEN [exc |-> "ValueError"]
                  ELSE [ok |-> [start |-> segment_captions[1].start,
                                end |-> segment_captions[Len(segment_captions)].end,
                                text |-> JoinCaptionTexts(segment_captions),
                                captions |-> segment_captions]]
    ELSE IF \/ indices.t = "string" /\ indices.s = ""
            \/ indices.t = "object" /\ DOMAIN indices.m = {}
         THEN [exc |-> "ValueError"]
         ELSE [exc |-> "TypeError"]

\* the for loop of lines 62-74 from item i on; acc holds all_segments,
\* last_segment and last_caption_indices
RECURSIVE SegmentsLoop(_, _, _, _)
SegmentsLoop(captions, segments_data, i, acc) ==
    IF i > Len(segments_data) THEN [ok |-> acc]
    ELSE LET seg_dict == segments_data[i] IN
         IF seg_dict.t # "object" THEN [exc |-> "TypeError"]
         ELSE IF "caption_indices" \notin DOMAIN seg_dict.m THEN [exc |-> "KeyError"]
         ELSE LET caption_indices == seg_dict.m["caption_indices"]
                  segment == BuildSegmentFromIndices(captions, caption_indices)
              IN  IF IsExc(segment)
                  THEN IF segment.exc = "ValueError"
                       THEN SegmentsLoop(captions, segments_data, i + 1, acc)
                       ELSE segment
                  ELSE IF i = Len(segments_data)
                  THEN SegmentsLoop(captions, segments_data, i + 1,
                           [acc EXCEPT !.last_segment = segment.ok,
                                       !.last_caption_indices = caption_indices.items])
                  ELSE SegmentsLoop(captions, segments_data, i + 1,
                           [acc EXCEPT !.all_segments = Append(@, segment.ok)])

\* `not segments_data` (line 56)
Falsy(v) ==
    \/ v.t = "null"
    \/ v.t = "array" /\ v.items = <<>>
    \/ v.t = "object" /\ DOMAIN v.m = {}
    \/ v.t = "string" /\ v.s = ""
    \/ v.t = "int" /\ v.n = 0
    \/ v.t = "number" /\ v.milli = 0

\* the responses the oracle gives to a segmentation prompt
IndexLists ==
    {<<>>, <<MaxCaptions + 4, 0>>} \cup {<<k>> : k \in (0 - 1)..MaxCaptions}
        \cup {<<k, k + 1>> : k \in 0..(MaxCaptions - 1)}
IndicesValue(l) == JArr([k \in 1..Len(l) |-> JInt(l[k])])
SegDict(l) == JObj([caption_indices |-> IndicesValue(l)])
SegmentDocs ==
    {JArr(<<SegDict(l)>>) : l \in IndexLists}
    \cup {JArr(<<SegDict(f), SegDict(l)>>) : f \in {<<0>>, <<MaxCaptions>>}, l \in IndexLists}
    \cup {JArr(<<>>), JNull, JInt(0), JInt(5), JObj(<<>>), JArr(<<JInt(1)>>),
          JArr(<<JObj([name |-> JStr("x")])>>), SegDict(<<0>>),
          JArr(<<JObj([caption_indices |-> JInt(1)])>>),
          JArr(<<JObj([caption_indices |-> JStr("")])>>),
          JArr(<<JObj([caption_indices |-> JArr(<<JStr("a")>>)])>>)}
SegmentTextsOf == {<<JsonDump(v), v>> : v \in SegmentDocs}
SegmentResponses ==
    {d[1] : d \in SegmentTextsOf}
        \cup {ProseResponse, OpenThinkResponse,
              FenceJson \o "\n" \o JsonDump(JArr(<<SegDict(<<0>>)>>)) \o "\n" \o Fence}

\* lines 49-54: the response is cleaned and parsed (json.loads is the inverse
\* of JsonDump on SegmentDocs)
SegmentsData(response_text) ==
    LET clean_response == CleanJsonOutput(response_text) IN
    IF IsExc(clean_response) THEN clean_response
    ELSE IF \E d \in SegmentTextsOf : d[1] = clean_response.ok
    THEN [ok |-> (CHOOSE d \in SegmentTextsOf : d[1] = clean_response.ok)[2]]
    ELSE [exc |-> "JSONDecodeError"]

\* lines 49-74 of one turn: the response is parsed and its segments are built.
\* [go |-> "break"], [go |-> "raise", exc |-> kind] or [go |-> "on"] with the
\* segments the loop appends, last_segment and last_caption_indices
TurnSegments(captions, response_text) ==
    LET segments_data == SegmentsData(response_text) IN
    IF IsExc(segments_data)
    THEN IF segments_data.exc = "JSONDecodeError" THEN [go |-> "break"]
         ELSE [go |-> "raise", exc |-> segments_data.exc]
    ELSE IF Falsy(segments_data.ok) THEN [go |-> "break"]
    ELSE IF segments_data.ok.t # "array" THEN [go |-> "raise", exc |-> "TypeError"]
    ELSE LET looped == SegmentsLoop(captions, segments_data.ok.items, 1,
                           [all_segments |-> <<>>, last_segment |-> None,
                            last_caption_indices |-> <<>>])
         IN  IF IsExc(looped) THEN [go |-> "raise", exc |-> looped.exc]
             ELSE [go |-> "on", appended |-> looped.ok.all_segments,
                   last_segment |-> looped.ok.last_segment,
                   last_caption_indices |-> looped.ok.last_caption_indices]

\* the captions of the calls: they end after 30 or 100 seconds, in any order
CaptionLists ==
    {[k \in 1..Len(ends) |-> Caption(ends[k] - 10, ends[k], "a\nb ")] :
        ends \in SeqsUpTo({30, 100}, MaxCaptions)}

TurnSegmentsOf ==
    [captions \in CaptionLists |->
        [response_text \in SegmentResponses |-> TurnSegments(captions, response_text)]]

\* batch_captions (lines 39-40)
BatchCaptions ==
    FirstBatchWithXMinutesOfCaptions(
        SubSeq(s_captions, s_next_caption_index + 1, Len(s_captions)), s_minutes_per_batch)

\* what a turn leaves: how the loop goes on ("return", "raise", "stuck", "skip"
\* or "advance") and the new values of the locals
Turn(go, all_segments, next_caption_index, stuck_counter, exc) ==
    [go |-> go, all_segments |-> all_segments, next_caption_index |-> next_caption_index,
     stuck_counter |-> stuck_counter, exc |-> exc]

\* lines 56-95: one turn of the while loop on the segments of the response
LoopTurn(segments) ==
    IF segments.go = "break"
    THEN Turn("return", s_all_segments, s_next_caption_index, s_stuck_counter, "")
    ELSE IF segments.go = "raise"
    THEN Turn("raise", s_all_segments, s_next_caption_index, s_stuck_counter, segments.exc)
    ELSE IF segments.last_caption_indices = <<>>
    THEN Turn("return", s_all_segments \o segments.appended,
              s_next_caption_index, s_stuck_counter, "")
    ELSE IF segments.last_caption_indices[Len(segments.last_caption_indices)].n
                >= Len(s_captions) - 1
    THEN Turn("return", Append(s_all_segments \o segments.appended, segments.last_segment),
              s_next_caption_index, s_stuck_counter, "")
    ELSE IF segments.last_caption_indices[1].n <= s_next_caption_index
    THEN IF s_stuck_counter + 1 < 3
         THEN Turn("stuck", s_all_segments \o segments.appended,
                   s_next_caption_index, s_stuck_counter + 1, "")
         ELSE Turn("skip", s_all_segments \o segments.appended,
                   s_next_caption_index + Len(BatchCaptions), 0, "")
    ELSE Turn("advance", s_all_segments \o segments.appended,
              segments.last_caption_indices[1].n, 0, "")

\* line 38 is false: return all_segments (line 96)
SegReturn ==
    /\ s_pc = "loop" /\ ~(s_next_caption_index < Len(s_captions))
    /\ s_pc' = "done" /\ s_result' = [ok |-> s_all_segments]
    /\ UNCHANGED <<segInputs, s_next_caption_index, s_stuck_counter, s_all_segments, s_log,
                   batchVars, oracle, chatVars, tdVars, dedupVars, valVars, plVars, fnVars>>

\* lines 38-48: the batch is taken, the prompt is built and given to _chat,
\* which raises ValueError for a model that is no "gpt-" one and calls
\* _safe_chat_call otherwise; the oracle may answer any prompt with any response
SegSend ==
    /\ s_pc = "loop" /\ s_next_caption_index < Len(s_captions)
    /\ IF StartsWith(s_model, "gpt-")
       THEN /\ ChatEntered(DefaultMaxRetries)
            /\ s_pc' = "chat"
            /\ UNCHANGED s_result
       ELSE /\ s_pc' = "done" /\ s_result' = [exc |-> "ValueError"]
            /\ UNCHANGED chatVars
    /\ UNCHANGED <<segInputs, s_next_caption_index, s_stuck_counter, s_all_segments, s_log,
                   batchVars, oracle, tdVars, dedupVars, valVars, plVars, fnVars>>

\* lines 48-95: _chat is over; its exception leaves the function, its text goes
\* through the rest of the turn
SegReceive ==
    /\ s_pc = "chat" /\ c_pc = "done"
    /\ IF IsExc(c_result)
       THEN /\ s_pc' = "done" /\ s_result' = c_result
            /\ UNCHANGED <<s_next_caption_index, s_stuck_counter, s_all_segments, s_log>>
       ELSE \E segments \in {TurnSegmentsOf[s_captions][c_result.ok]} :
            \E turn \in {LoopTurn(segments)} :
            /\ s_all_segments' = turn.all_segments
            /\ s_next_caption_index' = turn.next_caption_index
            /\ s_stuck_counter' = turn.stuck_counter
            /\ s_log' = Append(s_log, turn.go)
            /\ s_pc' = IF turn.go \in {"return", "raise"} THEN "done" ELSE "loop"
            /\ s_result' = IF turn.go = "return" THEN [ok |-> turn.all_segments]
                           ELSE IF turn.go = "raise" THEN [exc |-> turn.exc]
                           ELSE s_result
    /\ c_pc' = "idle" /\ c_max_retries' = 0 /\ c_attempt' = 0
    /\ c_wait' = None /\ c_result' = None /\ c_log' = <<>>
    /\ UNCHANGED <<segInputs, batchVars, oracle, tdVars, dedupVars, valVars, plVars, fnVars>>

SegOracle ==
    [responses |-> SegmentResponses,
     messages |-> {"Rate limit reached for gpt-4.1."},
     errors |-> {"APIConnectionError"}, script |-> <<>>, scripted |-> <<>>]

InitSegment ==
    /\ b_fn = "labels" /\ b_items = <<>> /\ b_overhead = 0
    /\ b_max_tokens = DefaultMaxTokens /\ b_pc = "done" /\ b_result = None
    /\ oracle = SegOracle /\ ChatIdle /\ TdIdle /\ DedupIdle /\ ValIdle /\ PlIdle /\ FnIdle
    /\ s_captions \in CaptionLists
    /\ s_model \in TopdownModels
    /\ s_minutes_per_batch \in 0..MaxMinutes
    /\ s_pc = "loop" /\ s_next_caption_index = 0 /\ s_stuck_counter = 0
    /\ s_all_segments = <<>> /\ s_result = None /\ s_log = <<>>

NextSegment ==
    \/ SegSend
    \/ ChatStep
    \/ SegReceive
    \/ SegReturn

SpecSegment == InitSegment /\ [][NextSegment]_vars
\* every step that can be taken is taken in the end: each oracle call returns
SpecSegmentFair == SpecSegment /\ WF_vars(NextSegment)

-----------------------------------------------------------------------------
(* Claims on _segment_with_llm.                                            *)

SegDone == s_pc = "done"

\* C31: _segment_with_llm returns or raises for every caption list and all
\* oracle responses when minutes_per_batch >= 0: each turn of the loop leaves
\* the loop, makes next_caption_index larger or makes stuck_counter larger,
\* and when stuck_counter reaches 3 next_caption_index moves on by at least one
\* caption.
C31_SegmentationTerminates ==
    /\ <>SegDone
    /\ [][(s_pc = "chat" /\ c_pc = "done") =>
            \/ s_pc' = "done"
            \/ s_next_caption_index' > s_next_caption_index
            \/ s_stuck_counter' > s_stuck_counter]_vars
    /\ [][s_stuck_counter' < s_stuck_counter =>
            s_next_caption_index' >= s_next_caption_index + 1]_vars
    /\ [](s_stuck_counter \in 0..2)

\* the call has returned after the oracle kept it on one caption three times
C31_Witness ==
    /\ SegDone /\ IsOk(s_result)
    /\ \E k \in 1..(Len(s_log) - 2) :
          s_log[k] = "stuck" /\ s_log[k + 1] = "stuck" /\ s_log[k + 2] = "skip"

====
